---- MODULE Spec2Model ----
(***************************************************************************)
(* A model of the arena decision pipeline (modules/ai_composer.py), of the *)
(* rollout driver of modules/arena_client.py and of the training run of    *)
(* train.py.                                                               *)
(*                                                                         *)
(* Python dictionaries are records whose fields may be absent; d.get(k, v) *)
(* is Get(d, k, v).  Python's None is the string NoneVal.  Floats are      *)
(* fixed-point integers: directions in 1/DirScale, threat in               *)
(* 1/ThreatScale, distances in 1/DistScale; battlefield coordinates are    *)
(* whole numbers.                                                          *)
(***************************************************************************)
EXTENDS Integers, Sequences, FiniteSets, TLC

VARIABLES
    unit,           \* the controlled (pending) unit handed to decide_unit
    snapshot,       \* the battlefield snapshot of the current tick
    cfg,            \* construction parameters of the composer's modules
    ctx,            \* the decision context threaded through the stages
    pc,             \* position inside AIComposer.decide_unit
    target_plan,    \* TargetPlan of the current tick
    movement_plan,  \* MovementPlan of the current tick
    fire_plan,      \* FirePlan of the current tick (its fire_requests)
    fire_locals,    \* step_index / last_step read by BaselineFireModule.plan
    command,        \* the command decide_unit returns
    batch,          \* AIComposer.callback: pending units, position, commands
    call,           \* a call of a pure helper: its arguments and its result
    client,         \* ArenaClient.run_until_terminal: its position and locals
    service,        \* the battle service: sessions and the calls it received
    run             \* train(): its position, locals and trainer state

stageVars == <<unit, snapshot, cfg, ctx, pc, target_plan, movement_plan,
               fire_plan, fire_locals, command, batch>>

vars == <<stageVars, client, service, run, call>>

(***************************************************************************)
(* Bounds of the model.                                                    *)
(***************************************************************************)
MaxOthers == 2       \* units in a snapshot besides the controlled one
MaxWeapons == 2      \* largest weapon_count drawn
MaxTicks == 5        \* decision ticks of one behaviour of the pipeline

(***************************************************************************)
(* Fixed-point scales and program constants.                               *)
(***************************************************************************)
DirScale == 10 * 10 * 10      \* a direction component 1.0 is DirScale
ThreatScale == 10 * 10 * 10   \* a threat or weight 1.0 is ThreatScale
DistScale == 10 * 10          \* a distance 1.0 is DistScale
NeverFired == -1000000000     \* -10**9, "never fired"
DefaultMaxSlots == 8
DefaultDesiredRange == 280

NoneVal == "<None>"

\* Probabilities a target model may give the candidate it selects.
ProbSamples == {4 * 100, DirScale}

Sides == {"player", "enemy"}

(***************************************************************************)
(* Helpers.                                                                *)
(***************************************************************************)
Get(d, k, dflt) == IF k \in DOMAIN d THEN d[k] ELSE dflt

Truthy(s) == s # NoneVal /\ s # ""

Max2(a, b) == IF a >= b THEN a ELSE b

Min2(a, b) == IF a <= b THEN a ELSE b

\* snapshot.get("state", snapshot)
StateOf(snap) == Get(snap, "state", snap)

_clampf_unclamped(value, min_v, max_v) == value

_clampf(value, min_v, max_v) == Max2(min_v, Min2(max_v, value))

\* str(unit.get("unit_id") or unit.get("id") or "")
_unit_id(u) ==
    IF Truthy(Get(u, "unit_id", NoneVal)) THEN u.unit_id
    ELSE IF Truthy(Get(u, "id", NoneVal)) THEN u.id
    ELSE ""

_distance2(ax, ay, bx, by) == (bx - ax) * (bx - ax) + (by - ay) * (by - ay)

_alive_enemies_of_ignoring_alive(u, all_units) ==
    SelectSeq(all_units,
              LAMBDA other : Get(other, "side", NoneVal) # Get(u, "side", NoneVal))

_alive_enemies_of(u, all_units) ==
    SelectSeq(all_units,
              LAMBDA other : /\ Get(other, "alive", TRUE)
                             /\ Get(other, "side", NoneVal) # Get(u, "side", NoneVal))

\* The loop of _nearest_enemy over enemies[i..]: best is an index into
\* enemies, 0 for None (best_d2 is then float("inf")).
RECURSIVE NearestFrom(_, _, _, _)
NearestFrom(u, enemies, i, best) ==
    IF i > Len(enemies) THEN best
    ELSE LET ux == Get(u, "x", 0)
             uy == Get(u, "y", 0)
             d2 == _distance2(ux, uy, Get(enemies[i], "x", 0), Get(enemies[i], "y", 0))
             best_d2 == _distance2(ux, uy, Get(enemies[best], "x", 0),
                                   Get(enemies[best], "y", 0))
         IN  IF best = 0 \/ d2 < best_d2
             THEN NearestFrom(u, enemies, i + 1, i)
             ELSE NearestFrom(u, enemies, i + 1, best)

_nearest_enemy_first(u, all_units) ==
    LET enemies == _alive_enemies_of(u, all_units)
    IN  IF enemies = <<>> THEN <<>> ELSE <<enemies[1]>>

\* The nearest alive enemy as a one-element sequence, <<>> for None.
_nearest_enemy(u, all_units) ==
    LET enemies == _alive_enemies_of(u, all_units)
        best == NearestFrom(u, enemies, 1, 0)
    IN  IF best = 0 THEN <<>> ELSE <<enemies[best]>>

(***************************************************************************)
(* Target stage.                                                           *)
(***************************************************************************)
EmptyTargetPlan == [primary_target_id |-> NoneVal, assignments |-> <<>>]

TargetAssignment(slot, enemy, score) ==
    [slot |-> slot,
     target_id |-> Get(enemy, "id", ""),
     aim_x |-> Get(enemy, "x", 0),
     aim_y |-> Get(enemy, "y", 0),
     score |-> score]

\* BaselineTargetModule.assign
BaselineTargetAssign(u, snap) ==
    LET all_units == Get(StateOf(snap), "units", <<>>)
        found == _nearest_enemy(u, all_units)
    IN  IF found = <<>> THEN EmptyTargetPlan
        ELSE LET enemy == found[1]
                 weapon_count == Get(u, "weapon_count", 1)
             IN  [primary_target_id |-> Get(enemy, "id", ""),
                  assignments |->
                      [i \in 1..Max2(0, weapon_count) |->
                          TargetAssignment(i - 1, enemy, DirScale)]]

\* The number of slots NeuralTargetModule.assign scores.
NeuralSlotCount(u) == Min2(cfg.max_slots, Max2(1, Get(u, "weapon_count", 1)))

\* NeuralTargetModule.assign, with the index and the probability the model
\* yields for each slot given as pick[slot] = <<idx, prob>>.
NeuralTargetAssign(u, snap, pick) ==
    LET all_units == Get(StateOf(snap), "units", <<>>)
        enemies == _alive_enemies_of(u, all_units)
    IN  IF enemies = <<>> THEN EmptyTargetPlan
        ELSE LET assignments ==
                     [i \in 1..NeuralSlotCount(u) |->
                         TargetAssignment(i - 1, enemies[pick[i][1]], pick[i][2])]
             IN  [primary_target_id |->
                      IF assignments # <<>> THEN assignments[1].target_id ELSE NoneVal,
                  assignments |-> assignments]

(***************************************************************************)
(* Movement stage.                                                         *)
(***************************************************************************)
\* Division rounding toward zero, b > 0.
TDiv(a, b) == IF a >= 0 THEN a \div b ELSE -((-a) \div b)

RECURSIVE ISqrtBetween(_, _, _)
ISqrtBetween(n, lo, hi) ==
    IF lo >= hi THEN lo
    ELSE LET mid == (lo + hi + 1) \div 2
         IN  IF mid * mid <= n THEN ISqrtBetween(n, mid, hi)
             ELSE ISqrtBetween(n, lo, mid - 1)

\* floor(sqrt(n)) for 0 <= n < 2^31
ISqrt(n) == ISqrtBetween(n, 0, 46340)

\* dist = max(1e-6, (dx*dx + dy*dy) ** 0.5) in 1/DistScale; for whole
\* coordinates the floor 1e-6 applies exactly when dx = dy = 0, and is then
\* kept apart as the case d2 = 0.
DistFixed(d2) == ISqrt(d2 * DistScale * DistScale)

UnitComponent_default_heading(dx, d2) ==
    IF d2 = 0 THEN DirScale ELSE TDiv(dx * DirScale * DistScale, DistFixed(d2))

\* nx = dx / dist: 0 / 1e-6 = 0 when the positions coincide.
UnitComponent(dx, d2) ==
    IF d2 = 0 THEN 0 ELSE TDiv(dx * DirScale * DistScale, DistFixed(d2))

DistAbove_inclusive(d2, range) ==
    IF d2 = 0 THEN range <= 0 ELSE (range < 0 \/ d2 >= range * range)

\* dist > desired_range, for whole coordinates and a whole desired_range
DistAbove(d2, range) ==
    IF d2 = 0 THEN range <= 0 ELSE (range < 0 \/ d2 > range * range)

\* dist < desired_range * 0.6
DistBelowClose(d2, range) ==
    IF d2 = 0 THEN range >= 1 ELSE (range > 0 /\ 25 * d2 < 9 * range * range)

\* The loop of _threat_from_projectiles over projectiles[i..].
RECURSIVE ThreatSum(_, _, _)
ThreatSum(u, projectiles, i) ==
    IF i > Len(projectiles) THEN 0
    ELSE LET p == projectiles[i]
             d2 == Max2(1, _distance2(Get(u, "x", 0), Get(u, "y", 0),
                                      Get(p, "x", 0), Get(p, "y", 0)))
             term == IF Get(p, "side", NoneVal) = Get(u, "side", NoneVal)
                     THEN 0 ELSE (20000 * ThreatScale) \div d2
         IN  term + ThreatSum(u, projectiles, i + 1)

_threat_from_projectiles_doubled(u, projectiles) ==
    _clampf(2 * ThreatSum(u, projectiles, 1), 0, ThreatScale)

_threat_from_projectiles(u, projectiles) ==
    _clampf(ThreatSum(u, projectiles, 1), 0, ThreatScale)

\* The lookup loop of the movement and fire modules: the first unit of the
\* state with this id that is alive, as a one-element sequence.
FindAliveById(all_units, id) ==
    LET hits == SelectSeq(all_units,
                          LAMBDA e : Get(e, "id", "") = id /\ Get(e, "alive", TRUE))
    IN  IF hits = <<>> THEN <<>> ELSE <<hits[1]>>

ZeroMovementPlan == [dir_x |-> 0, dir_y |-> 0, allow_descend |-> FALSE]

\* BaselineMovementModule.plan
BaselineMovementPlan(u, snap, tplan) ==
    LET state == StateOf(snap)
        all_units == Get(state, "units", <<>>)
        projectiles == Get(state, "projectiles", <<>>)
        ux == Get(u, "x", 0)
        uy == Get(u, "y", 0)
        primary == IF Truthy(tplan.primary_target_id)
                   THEN FindAliveById(all_units, tplan.primary_target_id)
                   ELSE <<>>
    IN  IF primary = <<>> THEN ZeroMovementPlan
        ELSE LET dx == Get(primary[1], "x", 0) - ux
                 dy == Get(primary[1], "y", 0) - uy
                 d2 == dx * dx + dy * dy
                 nx == UnitComponent(dx, d2)
                 ny == UnitComponent(dy, d2)
                 range_x == IF DistAbove(d2, cfg.desired_range) THEN nx
                            ELSE IF DistBelowClose(d2, cfg.desired_range) THEN -nx
                            ELSE 0
                 range_y == IF DistAbove(d2, cfg.desired_range) THEN ny
                            ELSE IF DistBelowClose(d2, cfg.desired_range) THEN -ny
                            ELSE 0
                 threat == _threat_from_projectiles(u, projectiles)
                 dodge_w == (7 * threat) \div 10
                 dodging == threat * 100 > 15 * ThreatScale
                 dodge_x == IF dodging THEN TDiv((-ny) * dodge_w, ThreatScale) ELSE 0
                 dodge_y == IF dodging THEN TDiv(nx * dodge_w, ThreatScale) ELSE 0
             IN  [dir_x |-> _clampf(range_x + dodge_x, -DirScale, DirScale),
                  dir_y |-> _clampf(range_y + dodge_y, -DirScale, DirScale),
                  allow_descend |-> (Get(u, "type", NoneVal) = "air"
                                     /\ threat * 10 > 5 * ThreatScale)]

(***************************************************************************)
(* Fire stage.                                                             *)
(***************************************************************************)
FireRequest(a) ==
    [slot |-> a.slot, aim_x |-> a.aim_x, aim_y |-> a.aim_y,
     intended_target_id |-> a.target_id]

\* last_step_by_unit.get(uid, -10**9)
LastFireStep(c, uid) == Get(c.last_fire_step_by_unit, uid, NeverFired)

CadenceGateOpen_off_by_one(step_index, last_step) ==
    ~(step_index - last_step <= cfg.cadence_steps)

\* the negation of "step_index - last_step < self.cadence_steps"
CadenceGateOpen(step_index, last_step) ==
    ~(step_index - last_step < cfg.cadence_steps)

\* BaselineFireModule.plan: the requests it returns
BaselineFireRequests(u, tplan, c) ==
    LET uid == _unit_id(u)
    IN  IF ~Truthy(uid) THEN <<>>
        ELSE IF ~CadenceGateOpen(c.steps, LastFireStep(c, uid)) THEN <<>>
        ELSE [i \in 1..Len(tplan.assignments) |-> FireRequest(tplan.assignments[i])]

\* BaselineFireModule.plan: the context it leaves
BaselineFireCtx(u, tplan, c) ==
    LET uid == _unit_id(u)
        requests == BaselineFireRequests(u, tplan, c)
    IN  IF requests # <<>>
        THEN [c EXCEPT !.last_fire_step_by_unit =
                 [k \in DOMAIN c.last_fire_step_by_unit \cup {uid} |->
                     IF k = uid THEN c.steps ELSE c.last_fire_step_by_unit[k]]]
        ELSE c

(***************************************************************************)
(* AIComposer.decide_unit, one stage per step, and the driver's tick.      *)
(***************************************************************************)
\* What the three policy heads compute from the features of one decision:
\* the index and the probability of the most probable enemy, the means of
\* the two directions, sigmoid(descend_logit) >= 0.5 and fire_prob >= 0.5.
\* The angle delta of the fire head is 0.
ParamSets ==
    [pick : {"first", "last"},
     prob : {DirScale},
     mean_x : {DirScale \div 2},
     mean_y : {0 - DirScale},
     descend : BOOLEAN,
     fire : BOOLEAN]

DefaultParams ==
    [pick |-> "last", prob |-> DirScale, mean_x |-> DirScale \div 2,
     mean_y |-> 0 - DirScale, descend |-> FALSE, fire |-> TRUE]

\* self.sample_actions and bool(ctx.get("_collect_log_probs", False))
Sampling(c) == cfg.sample_actions /\ Get(c, "_collect_log_probs", FALSE)

\* idx = int(dist.sample().item()) when sampling, else
\* idx = int(torch.argmax(probs).item()); the score is probs[idx].
TargetPick(sampling, params, n, sample) ==
    IF sampling THEN sample
    ELSE <<IF params.pick = "first" THEN 1 ELSE n, params.prob>>

\* The log-probabilities NeuralTargetModule.assign appends: one per slot
\* when it samples.
TargetLogProbs(u, snap) ==
    IF Sampling(ctx)
       /\ _alive_enemies_of(u, Get(StateOf(snap), "units", <<>>)) # <<>>
    THEN [i \in 1..NeuralSlotCount(u) |-> "target"]
    ELSE <<>>

BaselineTargetStage ==
    /\ pc = "target"
    /\ cfg.target_kind = "baseline"
    /\ target_plan' = BaselineTargetAssign(unit, snapshot)
    /\ pc' = "movement"
    /\ UNCHANGED <<unit, snapshot, cfg, ctx, movement_plan, fire_plan, fire_locals, command, batch,
                   client, service, run, call>>

NeuralTargetStage ==
    /\ pc = "target"
    /\ cfg.target_kind = "neural"
    /\ LET enemies == _alive_enemies_of(unit, Get(StateOf(snapshot), "units", <<>>))
       IN  IF enemies = <<>>
           THEN target_plan' = NeuralTargetAssign(unit, snapshot, <<>>)
           ELSE \E idx \in [1..NeuralSlotCount(unit) -> 1..Len(enemies)] :
                \E prob \in ProbSamples :
                    target_plan' = NeuralTargetAssign(unit, snapshot,
                        [i \in 1..NeuralSlotCount(unit) |->
                            TargetPick(Sampling(ctx), cfg.params, Len(enemies),
                                       <<idx[i], prob>>)])
    /\ ctx' = [ctx EXCEPT !._policy_log_probs = @ \o TargetLogProbs(unit, snapshot)]
    /\ pc' = "movement"
    /\ UNCHANGED <<unit, snapshot, cfg, movement_plan, fire_plan, fire_locals, command, batch,
                   client, service, run, call>>

BaselineMovementStage ==
    /\ pc = "movement"
    /\ cfg.movement_kind = "baseline"
    /\ movement_plan' = BaselineMovementPlan(unit, snapshot, target_plan)
    /\ pc' = "fire"
    /\ UNCHANGED <<unit, snapshot, cfg, ctx, target_plan, fire_plan, fire_locals, command, batch,
                   client, service, run, call>>

Facing_toward_positive_x(u, tplan) == 1

\* facing = 0; primary_x = assignments[0].aim_x if there is an assignment;
\* facing = 1 if primary_x >= ux else -1
Facing(u, tplan) ==
    IF tplan.assignments = <<>> THEN 0
    ELSE IF tplan.assignments[1].aim_x >= Get(u, "x", 0) THEN 1 ELSE 0 - 1

NoCommand == [unit_id |-> NoneVal]

\* AIComposer.callback is not running.
NoBatch == [pc |-> "idle"]

\* No helper is being called.
NoCall == [pc |-> "idle"]

\* The dictionary decide_unit returns.
DecideUnitCommand(u, tplan, mplan, fplan) ==
    [unit_id |-> _unit_id(u),
     move |-> [dir_x |-> mplan.dir_x, dir_y |-> mplan.dir_y,
               allow_descend |-> mplan.allow_descend],
     facing |-> Facing(u, tplan),
     fire_requests |-> fplan]

\* fire_module.plan(...) and the rest of decide_unit.
BaselineFireStage ==
    /\ pc = "fire"
    /\ cfg.fire_kind = "baseline"
    /\ fire_locals' = [step_index |-> ctx.steps,
                       last_step |-> LastFireStep(ctx, _unit_id(unit))]
    /\ fire_plan' = BaselineFireRequests(unit, target_plan, ctx)
    /\ command' = DecideUnitCommand(unit, target_plan, movement_plan,
                                    BaselineFireRequests(unit, target_plan, ctx))
    /\ ctx' = BaselineFireCtx(unit, target_plan, ctx)
    /\ pc' = "decided"
    /\ UNCHANGED <<unit, snapshot, cfg, target_plan, movement_plan, batch,
                   client, service, run, call>>

\* tanh of a sampled direction, in 1/DirScale.
MoveSamples == {0 - (DirScale \div 2), DirScale \div 2}

\* NeuralMovementModule.plan: the sampled directions and descent when it
\* samples, else the means and sigmoid(descend_logit) >= 0.5.
NeuralMovementPlan(sampling, params, sample) ==
    IF sampling
    THEN [dir_x |-> _clampf(sample.dir_x, -DirScale, DirScale),
          dir_y |-> _clampf(sample.dir_y, -DirScale, DirScale),
          allow_descend |-> sample.allow_descend]
    ELSE [dir_x |-> _clampf(params.mean_x, -DirScale, DirScale),
          dir_y |-> _clampf(params.mean_y, -DirScale, DirScale),
          allow_descend |-> params.descend]

\* The three log-probabilities NeuralMovementModule.plan appends when it
\* samples.
MovementLogProbs(sampling) ==
    IF sampling THEN <<"move_x", "move_y", "descend">> ELSE <<>>

NeuralMovementStage ==
    /\ pc = "movement"
    /\ cfg.movement_kind = "neural"
    /\ \E sample \in [dir_x : MoveSamples, dir_y : MoveSamples, allow_descend : BOOLEAN] :
           movement_plan' = NeuralMovementPlan(Sampling(ctx), cfg.params, sample)
    /\ ctx' = [ctx EXCEPT !._policy_log_probs = @ \o MovementLogProbs(Sampling(ctx))]
    /\ pc' = "fire"
    /\ UNCHANGED <<unit, snapshot, cfg, target_plan, fire_plan, fire_locals, command, batch,
                   client, service, run, call>>

ShouldFire_sampled(sampling, params, sample) == sample

\* should_fire = bool(fire_sample.item() >= 0.5) when sampling, else
\* bool(fire_prob.item() >= 0.5)
ShouldFire(sampling, params, sample) ==
    IF sampling THEN sample ELSE params.fire

\* The request for one assignment: the aim point at distance
\* max(1.0, dist) from the unit in the direction of the assignment's aim
\* point (atan2(0, 0) = 0 when the two coincide), the angle delta being 0.
NeuralFireRequest(u, a) ==
    LET ux == Get(u, "x", 0)
        uy == Get(u, "y", 0)
    IN  IF a.aim_x = ux /\ a.aim_y = uy
        THEN [slot |-> a.slot, aim_x |-> ux + 1, aim_y |-> uy,
              intended_target_id |-> a.target_id]
        ELSE FireRequest(a)

\* The slots NeuralFireModule.plan looks at: assignment.slot < self.max_slots.
FireSlots(tplan) ==
    {i \in 1..Len(tplan.assignments) : tplan.assignments[i].slot < cfg.max_slots}

RECURSIVE NeuralFireFrom(_, _, _, _)
NeuralFireFrom(u, tplan, fires, i) ==
    IF i > Len(tplan.assignments) THEN <<>>
    ELSE (IF i \in FireSlots(tplan) /\ fires[i]
          THEN <<NeuralFireRequest(u, tplan.assignments[i])>> ELSE <<>>)
         \o NeuralFireFrom(u, tplan, fires, i + 1)

\* NeuralFireModule.plan: the requests, fires[i] being should_fire of the
\* i-th assignment.
NeuralFireRequests(u, tplan, fires) == NeuralFireFrom(u, tplan, fires, 1)

\* One log-probability per slot looked at, when it samples.
FireLogProbs(sampling, tplan) ==
    IF sampling
    THEN [i \in 1..Cardinality(FireSlots(tplan)) |-> "fire"]
    ELSE <<>>

NeuralFireStage ==
    /\ pc = "fire"
    /\ cfg.fire_kind = "neural"
    /\ \E sample \in [1..Len(target_plan.assignments) -> BOOLEAN] :
           LET fires == [i \in 1..Len(target_plan.assignments) |->
                            ShouldFire(Sampling(ctx), cfg.params, sample[i])]
               requests == NeuralFireRequests(unit, target_plan, fires)
           IN  /\ fire_plan' = requests
               /\ command' = DecideUnitCommand(unit, target_plan, movement_plan, requests)
    /\ ctx' = [ctx EXCEPT !._policy_log_probs =
                   @ \o FireLogProbs(Sampling(ctx), target_plan)]
    /\ pc' = "decided"
    /\ UNCHANGED <<unit, snapshot, cfg, target_plan, movement_plan, fire_locals, batch,
                   client, service, run, call>>

\* A caller that does not collect log-probabilities calls decide_unit once
\* more with the same unit, snapshot and context, the command of the first
\* call being kept for comparison.
DecideAgain ==
    /\ pc = "decided"
    /\ call = NoCall
    /\ ~Sampling(ctx)
    /\ call' = [pc |-> "again", first |-> command,
                log_probs |-> ctx._policy_log_probs]
    /\ command' = NoCommand
    /\ pc' = "target"
    /\ UNCHANGED <<unit, snapshot, cfg, ctx, target_plan, movement_plan, fire_plan,
                   fire_locals, batch, client, service, run>>

ComposerNext ==
    \/ BaselineTargetStage
    \/ NeuralTargetStage
    \/ BaselineMovementStage
    \/ NeuralMovementStage
    \/ BaselineFireStage
    \/ NeuralFireStage
    \/ DecideAgain

\* The snapshots the service may answer a step with: one of the other
\* units may have died or have been (re)deployed, the rest of the
\* battlefield is as before.
Casualties(snap, changed, flag) ==
    LET state == StateOf(snap)
        units == Get(state, "units", <<>>)
        after == [i \in 1..Len(units) |->
                     IF i \in changed THEN [k \in DOMAIN units[i] \cup {"alive"} |->
                                               IF k = "alive" THEN flag ELSE units[i][k]]
                     ELSE units[i]]
        state2 == [state EXCEPT !.units = after]
    IN  IF "state" \in DOMAIN snap THEN [snap EXCEPT !.state = state2] ELSE state2

\* The driver submits the command and starts the next tick: train() gives
\* the next unit fresh log-probability lists and counts the step.
NextTick ==
    /\ pc = "decided"
    /\ ctx.steps < cfg.max_steps
    /\ \E changed \in {{}} \cup {{i} : i \in 2..Len(Get(StateOf(snapshot), "units", <<>>))} :
       \E flag \in BOOLEAN :
           snapshot' = Casualties(snapshot, changed, flag)
    /\ ctx' = [ctx EXCEPT !.steps = @ + 1, !._policy_log_probs = <<>>]
    /\ pc' = "target"
    /\ command' = NoCommand
    /\ UNCHANGED <<unit, cfg, target_plan, movement_plan, fire_plan, fire_locals, batch,
                   client, service, run, call>>

StageNext ==
    \/ BaselineTargetStage
    \/ NeuralTargetStage
    \/ BaselineMovementStage
    \/ BaselineFireStage
    \/ NextTick

(***************************************************************************)
(* Initial states of the pipeline.                                         *)
(***************************************************************************)
EmptyMap == [k \in {} |-> 0]

InitCtx(collect) ==
    [steps |-> 0,
     last_fire_step_by_unit |-> EmptyMap,
     _collect_log_probs |-> collect,
     _policy_log_probs |-> <<>>]

\* No rollout driver is running.
DriversIdle ==
    /\ client = [pc |-> "idle"]
    /\ service = [open |-> {}, created |-> 0, closes |-> <<>>]
    /\ run = [pc |-> "idle"]
    /\ call = NoCall

StageStart ==
    /\ DriversIdle
    /\ pc = "target"
    /\ target_plan = EmptyTargetPlan
    /\ movement_plan = ZeroMovementPlan
    /\ fire_plan = <<>>
    /\ fire_locals = [step_index |-> 0, last_step |-> NeverFired]
    /\ command = NoCommand
    /\ batch = NoBatch

PlayerUnit(w) ==
    [id |-> "u1", side |-> "player", x |-> 0, y |-> 0, alive |-> TRUE,
     type |-> "ground", weapon_count |-> w]

\* The controlled units of the target-stage runs: weapon_count from -1 up,
\* a unit without weapon_count, and one on the enemy side.
TargetUnits ==
    {PlayerUnit(w) : w \in -1..MaxWeapons}
    \cup {[id |-> "u1", side |-> "player", x |-> 0, y |-> 0, alive |-> TRUE]}
    \cup {[PlayerUnit(1) EXCEPT !.side = "enemy"]}

OtherIds == <<"e1", "e2", "e3", "e4">>

TargetPositions == {<<100, 0>>, <<30, 40>>}

\* What another unit of a snapshot may look like, its id left open.
OtherShapes ==
    {[side |-> s, alive |-> a, x |-> p[1], y |-> p[2]] :
        s \in Sides, a \in BOOLEAN, p \in TargetPositions}
    \cup {[side |-> "enemy", x |-> 100, y |-> 0]}

WithId(shape, id) ==
    [k \in DOMAIN shape \cup {"id"} |-> IF k = "id" THEN id ELSE shape[k]]

\* The unit lists of the target-stage runs: the controlled unit first, then
\* up to MaxOthers other units.
UnitListsOfLen(u, shapeSet, n) ==
    {<<u>> \o [i \in 1..n |-> WithId(shapes[i], OtherIds[i])] :
        shapes \in [1..n -> shapeSet]}

TargetUnitLists(u) == UNION {UnitListsOfLen(u, OtherShapes, n) : n \in 0..MaxOthers}

InitTarget ==
    /\ StageStart
    /\ unit \in TargetUnits
    /\ \E units \in TargetUnitLists(unit) :
       \E wrapped \in BOOLEAN :
           snapshot = IF wrapped
                      THEN [state |-> [units |-> units, projectiles |-> <<>>]]
                      ELSE [units |-> units, projectiles |-> <<>>]
    /\ cfg \in [target_kind : {"baseline", "neural"},
                movement_kind : {"baseline"},
                fire_kind : {"baseline"},
                params : {DefaultParams},
                max_slots : {1, DefaultMaxSlots},
                sample_actions : {TRUE},
                desired_range : {DefaultDesiredRange},
                cadence_steps : {1},
                max_steps : {1}]
    /\ ctx \in {InitCtx(c) : c \in BOOLEAN}

SpecTarget == InitTarget /\ [][StageNext]_vars

(***************************************************************************)
(* Initial states of the movement-stage runs: one enemy, at a distance     *)
(* above, inside and below the dead zone of each desired range, and        *)
(* projectiles of both sides at several distances.                         *)
(***************************************************************************)
MaxProjectiles == 2

MoveUnits ==
    {[PlayerUnit(1) EXCEPT !.type = t] : t \in {"ground", "air"}}
    \cup {[PlayerUnit(1) EXCEPT !.x = -100, !.y = 50]}

MoveOffsets ==
    {<<0, 0>>, <<300, 0>>, <<280, 0>>, <<200, 0>>, <<168, 0>>, <<100, 0>>,
     <<-300, 0>>, <<0, 300>>, <<200, -150>>, <<-120, 160>>, <<30, 40>>}

ProjectileShapes ==
    {[side |-> "enemy", dx |-> 0, dy |-> d] : d \in {100, 200, 400}}
    \cup {[side |-> "player", dx |-> 0, dy |-> 100]}

ProjectileListsOfLen(u, n) ==
    {[i \in 1..n |-> [side |-> shapes[i].side,
                      x |-> u.x + shapes[i].dx,
                      y |-> u.y + shapes[i].dy]] :
        shapes \in [1..n -> ProjectileShapes]}

ProjectileLists(u) == UNION {ProjectileListsOfLen(u, n) : n \in 0..MaxProjectiles}

DesiredRanges == {DefaultDesiredRange, 100, 0, -50}

\* The target plans handed to BaselineMovementModule.plan by a caller other
\* than the pipeline's own target stage: the primary target is in the
\* snapshot, alive or dead, or is not in it.
HandedTargetPlans ==
    {[primary_target_id |-> id, assignments |-> <<>>] : id \in {"e1", "e9"}}

InitMove ==
    /\ DriversIdle
    /\ movement_plan = ZeroMovementPlan
    /\ fire_plan = <<>>
    /\ fire_locals = [step_index |-> 0, last_step |-> NeverFired]
    /\ command = NoCommand
    /\ batch = NoBatch
    /\ unit \in MoveUnits
    /\ \E off \in MoveOffsets :
       \E projectiles \in ProjectileLists(unit) :
       \E e1_alive \in BOOLEAN :
           /\ snapshot = [units |-> <<unit, [id |-> "e1", side |-> "enemy",
                                            alive |-> e1_alive,
                                            x |-> unit.x + off[1], y |-> unit.y + off[2]]>>,
                          projectiles |-> projectiles]
           /\ \/ pc = "target" /\ target_plan = EmptyTargetPlan /\ e1_alive
              \/ pc = "movement" /\ target_plan \in HandedTargetPlans
    /\ cfg \in [target_kind : {"baseline", "neural"},
                movement_kind : {"baseline"},
                fire_kind : {"baseline"},
                params : {DefaultParams},
                max_slots : {DefaultMaxSlots},
                sample_actions : {TRUE},
                desired_range : DesiredRanges,
                cadence_steps : {1},
                max_steps : {1}]
    /\ ctx = InitCtx(FALSE)

SpecMove == InitMove /\ [][StageNext]_vars

(***************************************************************************)
(* Initial states of the fire-stage runs: every cadence, units with and   *)
(* without a resolvable id, enemies that come and go.                      *)
(***************************************************************************)
MaxCadence == 3

\* BaselineFireModule.__init__: self.cadence_steps = max(1, int(cadence_steps))
CadenceSteps(arg) == Max2(1, arg)

FireUnits ==
    {PlayerUnit(w) : w \in 0..MaxWeapons}
    \cup {[unit_id |-> "u1", side |-> "player", x |-> 0, y |-> 0, weapon_count |-> 1]}
    \cup {[side |-> "player", x |-> 0, y |-> 0, weapon_count |-> 1]}

FireOtherShapes ==
    {[side |-> "enemy", alive |-> a, x |-> 100, y |-> 0] : a \in BOOLEAN}

InitFire ==
    /\ StageStart
    /\ unit \in FireUnits
    /\ \E units \in UnitListsOfLen(unit, FireOtherShapes, 1) :
           snapshot = [units |-> units, projectiles |-> <<>>]
    /\ \E arg \in 0..MaxCadence :
           cfg \in [target_kind : {"baseline", "neural"},
                    movement_kind : {"baseline"},
                    fire_kind : {"baseline"},
                    params : {DefaultParams},
                    max_slots : {DefaultMaxSlots},
                    sample_actions : {TRUE},
                    desired_range : {DefaultDesiredRange},
                    cadence_steps : {CadenceSteps(arg)},
                    max_steps : {MaxTicks}]
    /\ ctx = InitCtx(FALSE)

SpecFire == InitFire /\ [][StageNext]_vars

(***************************************************************************)
(* Initial states of the composer runs: every combination of baseline and  *)
(* learned stages, sampling or not, decide_unit called twice.              *)
(***************************************************************************)
ComposerUnits == {PlayerUnit(w) : w \in 1..2}

ComposerOtherShapes ==
    {[side |-> "enemy", alive |-> TRUE, x |-> p[1], y |-> p[2]] :
        p \in {<<100, 0>>, <<0, 0>>}}

InitComposer ==
    /\ StageStart
    /\ unit \in ComposerUnits
    /\ \E n \in 0..2 :
       \E units \in UnitListsOfLen(unit, ComposerOtherShapes, n) :
           snapshot = [units |-> units, projectiles |-> <<>>]
    /\ cfg \in [target_kind : {"baseline", "neural"},
                movement_kind : {"baseline", "neural"},
                fire_kind : {"baseline", "neural"},
                params : ParamSets,
                max_slots : {1, DefaultMaxSlots},
                sample_actions : BOOLEAN,
                desired_range : {DefaultDesiredRange},
                cadence_steps : {1},
                max_steps : {0}]
    /\ ctx \in {InitCtx(c) : c \in BOOLEAN}

SpecComposer == InitComposer /\ [][ComposerNext]_vars

(***************************************************************************)
(* AIComposer.callback(snapshot, pending_units, ctx): decide_unit for the  *)
(* pending units, one after the other.                                     *)
(***************************************************************************)
MaxPending == 2

PendingAlive_any(u) == TRUE

\* unit.get("alive", True)
PendingAlive(u) == Get(u, "alive", TRUE)

\* The head of the loop: the dead unit is skipped, the living one goes
\* through decide_unit.
CallbackNextUnit ==
    /\ batch.pc = "loop"
    /\ pc \in {"idle", "collected"}
    /\ batch.i <= Len(batch.pending_units)
    /\ LET u == batch.pending_units[batch.i]
       IN  IF ~PendingAlive(u)
           THEN /\ batch' = [batch EXCEPT !.i = @ + 1]
                /\ UNCHANGED <<unit, pc>>
           ELSE /\ unit' = u
                /\ pc' = "target"
                /\ UNCHANGED batch
    /\ UNCHANGED <<snapshot, cfg, ctx, target_plan, movement_plan, fire_plan,
                   fire_locals, command, client, service, run, call>>

\* if cmd.get("unit_id"): commands.append(cmd)
CallbackCollect ==
    /\ batch.pc = "loop"
    /\ pc = "decided"
    /\ batch' = [batch EXCEPT
                    !.i = @ + 1,
                    !.commands = IF Truthy(command.unit_id)
                                 THEN Append(@, command) ELSE @]
    /\ pc' = "collected"
    /\ UNCHANGED <<unit, snapshot, cfg, ctx, target_plan, movement_plan, fire_plan,
                   fire_locals, command, client, service, run, call>>

\* return commands
CallbackReturn ==
    /\ batch.pc = "loop"
    /\ pc \in {"idle", "collected"}
    /\ batch.i > Len(batch.pending_units)
    /\ batch' = [batch EXCEPT !.pc = "returned"]
    /\ UNCHANGED <<unit, snapshot, cfg, ctx, pc, target_plan, movement_plan, fire_plan,
                   fire_locals, command, client, service, run, call>>

CallbackNext ==
    \/ CallbackNextUnit
    \/ BaselineTargetStage
    \/ NeuralTargetStage
    \/ BaselineMovementStage
    \/ BaselineFireStage
    \/ CallbackCollect
    \/ CallbackReturn

PendingIds == <<"u1", "u2", "u3", "u4">>

\* A pending unit: alive, dead or without the flag; its id under unit_id,
\* under id, under id behind an empty unit_id, or missing.
PendingUnit(i, alive, id_form) ==
    LET base == [side |-> "player", x |-> 0, y |-> 0, weapon_count |-> 1]
        flagged == IF alive = "absent" THEN base
                   ELSE base @@ [alive |-> (alive = "yes")]
    IN  IF id_form = "unit_id" THEN flagged @@ [unit_id |-> PendingIds[i]]
        ELSE IF id_form = "id" THEN flagged @@ [id |-> PendingIds[i]]
        ELSE IF id_form = "empty_unit_id" THEN flagged @@ [unit_id |-> "", id |-> PendingIds[i]]
        ELSE flagged

PendingListsOfLen(n) ==
    {[i \in 1..n |-> PendingUnit(i, alive[i], id_form[i])] :
        alive \in [1..n -> {"yes", "no", "absent"}],
        id_form \in [1..n -> {"unit_id", "id", "empty_unit_id", "none"}]}

PendingLists == UNION {PendingListsOfLen(n) : n \in 0..MaxPending}

InitCallback ==
    /\ DriversIdle
    /\ unit = [id |-> ""]
    /\ snapshot = [units |-> <<[id |-> "e1", side |-> "enemy", alive |-> TRUE,
                                x |-> 100, y |-> 0]>>,
                   projectiles |-> <<>>]
    /\ cfg \in [target_kind : {"baseline", "neural"},
                movement_kind : {"baseline"},
                fire_kind : {"baseline"},
                params : {DefaultParams},
                max_slots : {DefaultMaxSlots},
                sample_actions : {TRUE},
                desired_range : {DefaultDesiredRange},
                cadence_steps : {1},
                max_steps : {0}]
    /\ ctx = InitCtx(FALSE)
    /\ pc = "idle"
    /\ target_plan = EmptyTargetPlan
    /\ movement_plan = ZeroMovementPlan
    /\ fire_plan = <<>>
    /\ fire_locals = [step_index |-> 0, last_step |-> NeverFired]
    /\ command = NoCommand
    /\ \E pending_units \in PendingLists :
        batch = [pc |-> "loop", pending_units |-> pending_units, i |-> 1,
                 commands |-> <<>>]

SpecCallback == InitCallback /\ [][CallbackNext]_vars

(***************************************************************************)
(* The battle service, as far as the drivers see it.  Battle ids are the   *)
(* numbers 1, 2, ...; NoBattle is the empty id of a create response that   *)
(* carries none.                                                           *)
(***************************************************************************)
NoBattle == 0

FreshService == [open |-> {}, created |-> 0, closes |-> <<>>]

\* CreateBattle: the service opens a session when it answers with an id.
ServiceAfterCreate(svc, has_id) ==
    IF has_id
    THEN [svc EXCEPT !.created = @ + 1, !.open = @ \cup {svc.created + 1}]
    ELSE svc

CreatedId(svc, has_id) == IF has_id THEN svc.created + 1 ELSE NoBattle

MissingBattleId_never(battle_id) == FALSE

\* if not battle_id
MissingBattleId(battle_id) == battle_id = NoBattle

\* StepBattle leaves the set of sessions as it is.
ServiceAfterStep(svc) == svc

ServiceAfterClose_ignored(svc, id) == svc

\* CloseBattle({"battle_id": id})
ServiceAfterClose(svc, id) ==
    [svc EXCEPT !.open = @ \ {id}, !.closes = Append(@, id)]

(***************************************************************************)
(* ArenaClient: start_battle, run_until_terminal, close_battle.            *)
(***************************************************************************)
MaxClientSteps == 3   \* largest max_steps handed to run_until_terminal
MaxRuns == 2          \* episodes run on one client

\* start_battle(config): the first response of a new battle.
ClientStartBattle ==
    /\ client.pc = "ready"
    /\ client.runs < MaxRuns
    /\ \E has_id \in BOOLEAN, terminal \in BOOLEAN :
        /\ service' = ServiceAfterCreate(service, has_id)
        /\ client' = [client EXCEPT
                         !.pc = "started",
                         !.runs = @ + 1,
                         !.response = [battle_id |-> CreatedId(service, has_id),
                                       terminal |-> terminal]]
    /\ UNCHANGED <<stageVars, run, call>>

\* d[k] = v
Put(d, k, v) == [j \in DOMAIN d \cup {k} |-> IF j = k THEN v ELSE d[j]]

\* ctx.get("last_fire_step_by_unit", {})
FireRecord(c) == Get(c, "last_fire_step_by_unit", EmptyMap)

\* The decision context after the decisions of one tick for the pending
\* unit "u1" with a target: BaselineFireModule.plan leaves
\* ctx["last_fire_step_by_unit"] and, its gate being open, the step of the
\* shot in it; the other fire modules leave the context as it is.
CtxAfterTick(c, baseline_fire) ==
    IF ~baseline_fire THEN c
    ELSE LET step_index == Get(c, "steps", 0)
             last_step == Get(FireRecord(c), "u1", NeverFired)
         IN  Put(c, "last_fire_step_by_unit",
                 IF CadenceGateOpen(step_index, last_step)
                 THEN Put(FireRecord(c), "u1", step_index)
                 ELSE FireRecord(c))

\* run_until_terminal(first_response, max_steps), up to its loop.
RunUntilTerminalEnter ==
    /\ client.pc = "started"
    /\ \E max_steps \in 0..MaxClientSteps :
        client' =
            IF ~client.has_callback
            THEN [client EXCEPT !.pc = "raised", !.error = "RuntimeError"]
            ELSE IF MissingBattleId(client.response.battle_id)
            THEN [client EXCEPT !.pc = "raised", !.error = "ValueError",
                                !.battle_id = NoBattle]
            ELSE [client EXCEPT !.pc = "loop", !.error = "",
                                !.battle_id = client.response.battle_id,
                                !.max_steps = max_steps,
                                !.iter = 0,
                                !.ctx = Put(client.ctx, "episode_steps",
                                            Get(client.ctx, "episode_steps", 0))]
    /\ UNCHANGED <<stageVars, service, run, call>>

\* An iteration of the loop that finds the response terminal.
LoopReturnTerminal ==
    /\ client.pc = "loop"
    /\ client.iter < client.max_steps
    /\ client.response.terminal
    /\ client' = [client EXCEPT !.pc = "returned", !.returned = client.response]
    /\ UNCHANGED <<stageVars, service, run, call>>

\* An iteration of the loop that calls the callback and steps the battle.
LoopStep ==
    /\ client.pc = "loop"
    /\ client.iter < client.max_steps
    /\ ~client.response.terminal
    /\ \E terminal \in BOOLEAN :
        client' = [client EXCEPT
                      !.callbacks = @ + 1,
                      !.response = [battle_id |-> client.battle_id, terminal |-> terminal],
                      !.ctx = Put(CtxAfterTick(client.ctx, client.composer_callback),
                                  "episode_steps", client.ctx.episode_steps + 1),
                      !.iter = @ + 1]
    /\ service' = ServiceAfterStep(service)
    /\ UNCHANGED <<stageVars, run, call>>

\* The loop has run max_steps times: raise TimeoutError.
LoopTimeout ==
    /\ client.pc = "loop"
    /\ client.iter >= client.max_steps
    /\ client' = [client EXCEPT !.pc = "raised", !.error = "TimeoutError"]
    /\ UNCHANGED <<stageVars, service, run, call>>

\* close_battle(battle_id), called by the owner of the client after a run.
ClientCloseBattle ==
    /\ client.pc \in {"returned", "raised"}
    /\ client.battle_id \in service.open
    /\ service' = ServiceAfterClose(service, client.battle_id)
    /\ UNCHANGED <<stageVars, client, run, call>>

\* The owner of the client goes on to another battle with the same client.
ClientNextRun ==
    /\ client.pc \in {"returned", "raised"}
    /\ client' = [client EXCEPT !.pc = "ready"]
    /\ UNCHANGED <<stageVars, service, run, call>>

ClientNext ==
    \/ ClientStartBattle
    \/ RunUntilTerminalEnter
    \/ LoopReturnTerminal
    \/ LoopStep
    \/ LoopTimeout
    \/ ClientCloseBattle
    \/ ClientNextRun

\* No unit is being decided: the stage variables rest.
StageIdle ==
    /\ unit = [id |-> ""]
    /\ snapshot = [units |-> <<>>, projectiles |-> <<>>]
    /\ cfg = [target_kind |-> "baseline", max_slots |-> DefaultMaxSlots,
              movement_kind |-> "baseline", fire_kind |-> "baseline",
              params |-> DefaultParams,
              sample_actions |-> TRUE, desired_range |-> DefaultDesiredRange,
              cadence_steps |-> 1, max_steps |-> 0]
    /\ ctx = InitCtx(FALSE)
    /\ pc = "idle"
    /\ target_plan = EmptyTargetPlan
    /\ movement_plan = ZeroMovementPlan
    /\ fire_plan = <<>>
    /\ fire_locals = [step_index |-> 0, last_step |-> NeverFired]
    /\ command = NoCommand
    /\ batch = NoBatch

\* ArenaClient(endpoint, grpc_stub), with or without set_ai_callback.
InitClient ==
    /\ StageIdle
    /\ call = NoCall
    /\ service = FreshService
    /\ run = [pc |-> "idle"]
    /\ \E has_callback \in BOOLEAN, composer_callback \in BOOLEAN :
        /\ composer_callback => has_callback
        /\ client = [pc |-> "ready", runs |-> 0, has_callback |-> has_callback,
                     composer_callback |-> composer_callback,
                     response |-> [battle_id |-> NoBattle, terminal |-> FALSE],
                     returned |-> [battle_id |-> NoBattle, terminal |-> FALSE],
                     battle_id |-> NoBattle, max_steps |-> 0, iter |-> 0,
                     ctx |-> EmptyMap, error |-> "", callbacks |-> 0]

SpecClient == InitClient /\ [][ClientNext]_vars

(***************************************************************************)
(* train.py: train(), run_behavior_cloning_warmstart, evaluate_policy.     *)
(* Rewards, the reward baseline and advantages are in 1/RewardScale; the   *)
(* advantage-variance EMA is in 1/RewardScale^2; log-probabilities,        *)
(* entropy_coef and the normalized advantage are in 1/LogScale; losses are *)
(* in 1/LogScale^2; the EMA factors are in percent.                        *)
(***************************************************************************)
RewardScale == 10 * 1
LogScale == 10 * 10 * 10
Percent == 10 * 10

MaxEpisodes == 2      \* largest cfg.episodes

\* TrainConfig()
DefaultTrainConfig ==
    [episodes |-> 2000,
     max_steps_per_episode |-> 3000,
     chunk_seconds |-> 2,
     train_enemy_side |-> FALSE,
     metric_delta_weight |-> 1,
     terminal_reward_scale |-> 120 * RewardScale,
     reward_clip_abs |-> 300 * RewardScale,
     entropy_coef |-> 10,
     baseline_beta |-> 98,
     adv_var_beta |-> 98,
     bc_epochs |-> 3,
     bc_episodes |-> 6,
     bc_steps_per_episode |-> 500,
     eval_every_episodes |-> 25,
     eval_episodes |-> 8,
     eval_max_steps |-> 3000]

\* The sets of models build_trainable_composer can return, by USE_NEURAL_*.
ModelSets == {{}, {"fire"}, {"movement"}}

\* ln 0.5, the log-probability of a Bernoulli(0.5) sample, and the log
\* density of Normal(mean, 0.25) at its mean, ln(1 / (0.25 * sqrt(2 pi))).
BernoulliLogProb == 0 - 693
NormalLogProb == 467

\* The log-probabilities the units of one side append during one tick.
TickLogProbs(models) ==
    {<<>>}
    \cup (IF "fire" \in models THEN {<<BernoulliLogProb>>} ELSE {})
    \cup (IF "movement" \in models THEN {<<NormalLogProb>>} ELSE {})

CollectThisUnit_always(unit_side, train_enemy_side) == TRUE

\* collect_this_unit = unit_side == "player" or bool(cfg.train_enemy_side)
CollectThisUnit(unit_side, train_enemy_side) ==
    unit_side = "player" \/ train_enemy_side

\* The log-probabilities the units of one side append during one tick with
\* ctx["_collect_log_probs"] = collect: without it no stage samples.
SideLogProbs(models, collect) ==
    IF collect THEN TickLogProbs(models) ELSE {<<>>}

\* metric_delta_weight * (-(current_metric - prev_metric)) of one step
StepRewards == {10 * RewardScale, 0 - 250 * RewardScale}

\* dt_seconds of a create response, in whole seconds
DtChoices == {1, 2}

\* max(1, int(cfg.chunk_seconds / max(1e-6, dt)))
ChunkStepsOf(chunk_seconds, dt) == Max2(1, TDiv(chunk_seconds, dt))

_compute_terminal_bonus_unsigned(terminal, victory, side, scale) ==
    IF ~terminal THEN 0 ELSE scale

\* _compute_terminal_bonus(response, side, scale)
_compute_terminal_bonus(terminal, victory, side, scale) ==
    IF ~terminal THEN 0
    ELSE IF side = "player" THEN (IF victory THEN scale ELSE 0 - scale)
    ELSE (IF victory THEN 0 - scale ELSE scale)

RECURSIVE SeqSum(_)
SeqSum(seq) == IF seq = <<>> THEN 0 ELSE Head(seq) + SeqSum(Tail(seq))

\* torch.stack(list(xs)).mean()
Mean(seq) == TDiv(SeqSum(seq), Len(seq))

_policy_loss_from_advantage_ascent(advantage, log_probs, entropies, entropy_coef) ==
    IF log_probs = <<>> THEN 0
    ELSE advantage * Mean(log_probs)

\* _policy_loss_from_advantage(advantage, log_probs, entropies, entropy_coef)
_policy_loss_from_advantage(advantage, log_probs, entropies, entropy_coef) ==
    IF log_probs = <<>> THEN 0
    ELSE LET loss == 0 - advantage * Mean(log_probs)
         IN  IF entropies # <<>>
             THEN loss - entropy_coef * Mean(entropies)
             ELSE loss

\* beta * ema + (1.0 - beta) * value
Ema(beta, ema, value) == TDiv(beta * ema + (Percent - beta) * value, Percent)

\* advantage / math.sqrt(max(1e-6, adv_var_ema))
AdvantageNorm(advantage, adv_var_ema) ==
    TDiv(advantage * LogScale, Max2(1, ISqrt(Max2(0, adv_var_ema))))

NoChunk ==
    [valid |-> FALSE, chunk_reward |-> 0, baseline_before |-> 0, var_before |-> 0,
     advantage |-> 0, advantage_norm |-> 0, log_probs |-> <<>>,
     player_loss |-> 0, enemy_loss |-> 0, stepped |-> FALSE,
     counted |-> 0, n |-> 0, bonus |-> 0, victory |-> FALSE, entropies |-> <<>>]

\* The entropies the units of one side append during one tick: no module
\* appends to ctx["_policy_entropies"].
TickEntropies == <<>>

ChunkUpdate_baseline_first(r, raw, player_lps, enemy_lps) ==
    LET c == r.cfg
        chunk_reward == _clampf(raw, 0 - c.reward_clip_abs, c.reward_clip_abs)
        advantage == chunk_reward
                     - Ema(c.baseline_beta, r.reward_baseline, chunk_reward)
        adv_var_ema == Ema(c.adv_var_beta, r.adv_var_ema, advantage * advantage)
        advantage_norm == AdvantageNorm(advantage, adv_var_ema)
        player_loss == _policy_loss_from_advantage(advantage_norm, player_lps,
                           r.chunk_entropies.player, c.entropy_coef)
        enemy_loss ==
            IF c.train_enemy_side
            THEN _policy_loss_from_advantage(0 - advantage_norm, enemy_lps,
                                             r.chunk_entropies.enemy, c.entropy_coef)
            ELSE 0
        loss == player_loss + enemy_loss
    IN  [r EXCEPT
            !.raw_chunk_reward = 0,
            !.adv_var_ema = adv_var_ema,
            !.reward_baseline = Ema(c.baseline_beta, r.reward_baseline, chunk_reward),
            !.chunk_log_probs = [player |-> <<>>, enemy |-> <<>>],
            !.chunk_entropies = [player |-> <<>>, enemy |-> <<>>],
            !.since = <<>>,
            !.chunk = [valid |-> TRUE, chunk_reward |-> chunk_reward,
                       counted |-> SeqSum(r.since), n |-> Len(r.since),
                       bonus |-> 0, victory |-> FALSE,
                       entropies |-> r.chunk_entropies.player,
                       baseline_before |-> r.reward_baseline,
                       var_before |-> r.adv_var_ema,
                       advantage |-> advantage, advantage_norm |-> advantage_norm,
                       log_probs |-> player_lps,
                       player_loss |-> player_loss, enemy_loss |-> enemy_loss,
                       stepped |-> (loss # 0)]]

\* The update at a chunk boundary (train.py, the body of the boundary test).
ChunkUpdate(r, raw, player_lps, enemy_lps) ==
    LET c == r.cfg
        chunk_reward == _clampf(raw, 0 - c.reward_clip_abs, c.reward_clip_abs)
        advantage == chunk_reward - r.reward_baseline
        adv_var_ema == Ema(c.adv_var_beta, r.adv_var_ema, advantage * advantage)
        advantage_norm == AdvantageNorm(advantage, adv_var_ema)
        player_loss == _policy_loss_from_advantage(advantage_norm, player_lps,
                           r.chunk_entropies.player, c.entropy_coef)
        enemy_loss ==
            IF c.train_enemy_side
            THEN _policy_loss_from_advantage(0 - advantage_norm, enemy_lps,
                                             r.chunk_entropies.enemy, c.entropy_coef)
            ELSE 0
        loss == player_loss + enemy_loss
    IN  [r EXCEPT
            !.raw_chunk_reward = 0,
            !.adv_var_ema = adv_var_ema,
            !.reward_baseline = Ema(c.baseline_beta, r.reward_baseline, chunk_reward),
            !.chunk_log_probs = [player |-> <<>>, enemy |-> <<>>],
            !.chunk_entropies = [player |-> <<>>, enemy |-> <<>>],
            !.since = <<>>,
            !.chunk = [valid |-> TRUE, chunk_reward |-> chunk_reward,
                       counted |-> SeqSum(r.since), n |-> Len(r.since),
                       bonus |-> 0, victory |-> FALSE,
                       entropies |-> r.chunk_entropies.player,
                       baseline_before |-> r.reward_baseline,
                       var_before |-> r.adv_var_ema,
                       advantage |-> advantage, advantage_norm |-> advantage_norm,
                       log_probs |-> player_lps,
                       player_loss |-> player_loss, enemy_loss |-> enemy_loss,
                       stepped |-> (loss # 0)]]

NoEpisode ==
    [ep |-> 0, battle_id |-> NoBattle, terminal |-> FALSE, step |-> 0, ctx |-> EmptyMap]

\* ctx = {"steps": 0, "_collect_log_probs": ...}
FreshCtx(collect) == [steps |-> 0, _collect_log_probs |-> collect]

\* The fire stage of the composer built from these models is the baseline one.
BaselineFire(models) == "fire" \notin models

NoModels_ignored(models) == FALSE

\* if not models
NoModels(models) == models = {}

\* train(cfg) up to the call of run_behavior_cloning_warmstart, and that
\* function's early returns.
TrainBegin ==
    /\ run.pc = "begin"
    /\ run' =
        IF NoModels(run.cfg.models)
        THEN [run EXCEPT !.pc = "failed", !.error = "RuntimeError: no neural modules"]
        ELSE IF run.cfg.bc_epochs <= 0 \/ run.cfg.bc_episodes <= 0
        THEN [run EXCEPT !.pc = "train_create", !.stub = TRUE]
        ELSE IF NoModels(run.cfg.models)
        THEN [run EXCEPT !.pc = "train_create", !.stub = TRUE]
        ELSE [run EXCEPT !.pc = "bc_create", !.stub = TRUE]
    /\ UNCHANGED <<stageVars, client, service, call>>

\* for ep in range(cfg.bc_episodes): CreateBattle and the battle_id test.
BcCreateBattle ==
    /\ run.pc = "bc_create"
    /\ run.bc.ep < run.cfg.bc_episodes
    /\ \E has_id \in BOOLEAN, terminal \in BOOLEAN :
        /\ service' = ServiceAfterCreate(service, has_id)
        /\ run' =
            IF MissingBattleId(CreatedId(service, has_id))
            THEN [run EXCEPT !.bc.ep = @ + 1]
            ELSE [run EXCEPT !.pc = "bc_loop",
                             !.bc.battle_id = CreatedId(service, has_id),
                             !.bc.terminal = terminal,
                             !.bc.step = 0,
                             !.bc.ctx = FreshCtx(FALSE)]
    /\ UNCHANGED <<stageVars, client, call>>

\* One iteration of the behavior-cloning episode loop.
BcStep ==
    /\ run.pc = "bc_loop"
    /\ ~run.bc.terminal
    /\ run.bc.step < run.cfg.bc_steps_per_episode
    /\ \E terminal \in BOOLEAN :
        run' = [run EXCEPT !.bc.terminal = terminal, !.bc.step = @ + 1,
                           !.bc.ctx = Put(CtxAfterTick(run.bc.ctx, TRUE),
                                          "steps", run.bc.step + 1)]
    /\ service' = ServiceAfterStep(service)
    /\ UNCHANGED <<stageVars, client, call>>

\* The loop is over: stub.CloseBattle, then the next behavior-cloning episode.
BcCloseBattle ==
    /\ run.pc = "bc_loop"
    /\ run.bc.terminal \/ run.bc.step >= run.cfg.bc_steps_per_episode
    /\ service' = ServiceAfterClose(service, run.bc.battle_id)
    /\ run' = [run EXCEPT !.pc = "bc_create", !.bc.ep = @ + 1]
    /\ UNCHANGED <<stageVars, client, call>>

\* The supervised epochs, and train() up to its episode loop.
BcFit ==
    /\ run.pc = "bc_create"
    /\ run.bc.ep >= run.cfg.bc_episodes
    /\ run' = [run EXCEPT !.pc = "train_create", !.bc = NoEpisode]
    /\ UNCHANGED <<stageVars, client, service, call>>

\* for episode in range(cfg.episodes): CreateBattle, the battle_id test and
\* the episode's locals.
EpisodeAccumulators_kept(r) == r.chunk_log_probs

\* chunk_log_probs = {"player": [], "enemy": []} at the start of an episode
EpisodeAccumulators(r) == [player |-> <<>>, enemy |-> <<>>]

TrainCreateBattle ==
    /\ run.pc = "train_create"
    /\ run.episode < run.cfg.episodes
    /\ \E has_id \in BOOLEAN, terminal \in BOOLEAN, dt \in DtChoices :
        /\ service' = ServiceAfterCreate(service, has_id)
        /\ run' =
            IF MissingBattleId(CreatedId(service, has_id))
            THEN [run EXCEPT !.pc = "failed",
                             !.error = "RuntimeError: missing battle_id"]
            ELSE [run EXCEPT !.pc = "train_loop",
                             !.battle_id = CreatedId(service, has_id),
                             !.terminal = terminal,
                             !.chunk_steps = ChunkStepsOf(run.cfg.chunk_seconds, dt),
                             !.step = 0,
                             !.ctx = FreshCtx(TRUE),
                             !.chunk_log_probs = EpisodeAccumulators(run),
                             !.chunk_entropies = [player |-> <<>>, enemy |-> <<>>],
                             !.since = <<>>,
                             !.dropped = Len(run.chunk_log_probs.player),
                             !.raw_chunk_reward = 0]
    /\ UNCHANGED <<stageVars, client, call>>

ChunkBoundary_every_step(step, chunk_steps, terminal) == TRUE

\* (step % chunk_steps == 0) or bool(response.get("terminal", False))
ChunkBoundary(step, chunk_steps, terminal) ==
    (step % chunk_steps = 0) \/ terminal

\* One iteration of the training episode loop: the decisions of the tick,
\* StepBattle, the step reward and, at a chunk boundary, the update.
TrainStep ==
    /\ run.pc = "train_loop"
    /\ ~run.terminal
    /\ run.step < run.cfg.max_steps_per_episode
    /\ \E player_lps \in SideLogProbs(run.cfg.models,
                               CollectThisUnit("player", run.cfg.train_enemy_side)),
          enemy_lps \in SideLogProbs(run.cfg.models,
                              CollectThisUnit("enemy", run.cfg.train_enemy_side)),
          reward \in StepRewards,
          terminal \in BOOLEAN, victory \in BOOLEAN :
        LET c == run.cfg
            lps == [player |-> run.chunk_log_probs.player \o player_lps,
                    enemy |-> IF CollectThisUnit("enemy", c.train_enemy_side)
                              THEN run.chunk_log_probs.enemy \o enemy_lps
                              ELSE run.chunk_log_probs.enemy]
            step == run.step + 1
            step_reward ==
                c.metric_delta_weight * reward
                + _compute_terminal_bonus(terminal, victory, "player", c.terminal_reward_scale)
            raw == run.raw_chunk_reward + step_reward
            stepped == [run EXCEPT
                           !.terminal = terminal,
                           !.step = step,
                           !.ctx = Put(CtxAfterTick(run.ctx, BaselineFire(c.models)),
                                       "steps", run.ctx.steps + 1),
                           !.raw_chunk_reward = raw,
                           !.since = run.since \o <<step_reward>>,
                           !.dropped = 0,
                           !.chunk_entropies =
                               [player |-> run.chunk_entropies.player \o TickEntropies,
                                enemy |-> run.chunk_entropies.enemy \o TickEntropies],
                           !.chunk_log_probs = lps]
        IN  /\ victory => terminal
            /\ run' = IF ChunkBoundary(step, run.chunk_steps, terminal)
                      THEN [ChunkUpdate(stepped, raw, lps.player, lps.enemy) EXCEPT
                               !.chunk.bonus = _compute_terminal_bonus(terminal, victory,
                                                   "player", c.terminal_reward_scale),
                               !.chunk.victory = victory]
                      ELSE stepped
    /\ service' = ServiceAfterStep(service)
    /\ UNCHANGED <<stageVars, client, call>>

\* (episode + 1) % max(1, cfg.eval_every_episodes) == 0 or episode + 1 == cfg.episodes
EvalDue(c, episode) ==
    \/ (episode + 1) % Max2(1, c.eval_every_episodes) = 0
    \/ episode + 1 = c.episodes

EpisodeEnd_flush(r) ==
    [ChunkUpdate(r, r.raw_chunk_reward, r.chunk_log_probs.player,
                 r.chunk_log_probs.enemy) EXCEPT !.chunk = NoChunk]

\* The episode loop is left: what the partial chunk has accumulated stays
\* where it is, and the locals of the last chunk update are not read again.
EpisodeEnd(r) == [r EXCEPT !.chunk = NoChunk]

\* The loop is over: stub.CloseBattle, then evaluation or the next episode.
TrainCloseBattle ==
    /\ run.pc = "train_loop"
    /\ run.terminal \/ run.step >= run.cfg.max_steps_per_episode
    /\ service' = ServiceAfterClose(service, run.battle_id)
    /\ run' = IF EvalDue(run.cfg, run.episode)
              THEN [EpisodeEnd(run) EXCEPT !.pc = "eval_create"]
              ELSE [EpisodeEnd(run) EXCEPT !.pc = "train_create", !.episode = @ + 1]
    /\ UNCHANGED <<stageVars, client, call>>

\* evaluate_policy: CreateBattle and the battle_id test.
EvalCreateBattle ==
    /\ run.pc = "eval_create"
    /\ run.eval.ep < run.cfg.eval_episodes
    /\ \E has_id \in BOOLEAN, terminal \in BOOLEAN :
        /\ service' = ServiceAfterCreate(service, has_id)
        /\ run' =
            IF MissingBattleId(CreatedId(service, has_id))
            THEN [run EXCEPT !.eval.ep = @ + 1]
            ELSE [run EXCEPT !.pc = "eval_loop",
                             !.eval.battle_id = CreatedId(service, has_id),
                             !.eval.terminal = terminal,
                             !.eval.step = 0,
                             !.eval.ctx = FreshCtx(FALSE)]
    /\ UNCHANGED <<stageVars, client, call>>

\* One iteration of the evaluation episode loop.
EvalStep ==
    /\ run.pc = "eval_loop"
    /\ ~run.eval.terminal
    /\ run.eval.step < run.cfg.eval_max_steps
    /\ \E terminal \in BOOLEAN :
        run' = [run EXCEPT !.eval.terminal = terminal, !.eval.step = @ + 1,
                           !.eval.ctx = Put(CtxAfterTick(run.eval.ctx,
                                                         BaselineFire(run.cfg.models)),
                                            "steps", run.eval.step + 1)]
    /\ service' = ServiceAfterStep(service)
    /\ UNCHANGED <<stageVars, client, call>>

\* The loop is over: stub.CloseBattle, then the next evaluation episode.
EvalCloseBattle ==
    /\ run.pc = "eval_loop"
    /\ run.eval.terminal \/ run.eval.step >= run.cfg.eval_max_steps
    /\ service' = ServiceAfterClose(service, run.eval.battle_id)
    /\ run' = [run EXCEPT !.pc = "eval_create", !.eval.ep = @ + 1]
    /\ UNCHANGED <<stageVars, client, call>>

\* evaluate_policy returns; train() goes on to its next episode.
EvalReturn ==
    /\ run.pc = "eval_create"
    /\ run.eval.ep >= run.cfg.eval_episodes
    /\ run' = [run EXCEPT !.pc = "train_create", !.episode = @ + 1, !.eval = NoEpisode]
    /\ UNCHANGED <<stageVars, client, service, call>>

\* The episode loop is over: the models are saved.
TrainFinish ==
    /\ run.pc = "train_create"
    /\ run.episode >= run.cfg.episodes
    /\ run' = [run EXCEPT !.pc = "done"]
    /\ UNCHANGED <<stageVars, client, service, call>>

TrainNext ==
    \/ TrainBegin
    \/ BcCreateBattle
    \/ BcStep
    \/ BcCloseBattle
    \/ BcFit
    \/ TrainCreateBattle
    \/ TrainStep
    \/ TrainCloseBattle
    \/ EvalCreateBattle
    \/ EvalStep
    \/ EvalCloseBattle
    \/ EvalReturn
    \/ TrainFinish

\* The step ceilings of the three episode loops.
StepCeilings == {1, 2}

\* train(cfg) is called; reward_baseline = 0.0 and adv_var_ema = 1.0.
InitTrain ==
    /\ StageIdle
    /\ call = NoCall
    /\ client = [pc |-> "idle"]
    /\ service = FreshService
    /\ \E models \in ModelSets, episodes \in 0..MaxEpisodes,
          ceiling \in StepCeilings, train_enemy_side \in BOOLEAN,
          bc_episodes \in {0, 1} :
        run = [pc |-> "begin",
               cfg |-> [DefaultTrainConfig EXCEPT
                           !.episodes = episodes,
                           !.max_steps_per_episode = ceiling,
                           !.train_enemy_side = train_enemy_side,
                           !.bc_episodes = bc_episodes,
                           !.bc_steps_per_episode = 1,
                           !.eval_episodes = 1,
                           !.eval_max_steps = 1]
                       @@ [models |-> models],
               error |-> "",
               stub |-> FALSE,
               bc |-> NoEpisode,
               eval |-> NoEpisode,
               episode |-> 0,
               battle_id |-> NoBattle,
               terminal |-> FALSE,
               chunk_steps |-> 1,
               step |-> 0,
               ctx |-> FreshCtx(TRUE),
               chunk_log_probs |-> [player |-> <<>>, enemy |-> <<>>],
               chunk_entropies |-> [player |-> <<>>, enemy |-> <<>>],
               since |-> <<>>,
               dropped |-> 0,
               raw_chunk_reward |-> 0,
               reward_baseline |-> 0,
               adv_var_ema |-> 1 * RewardScale * RewardScale,
               chunk |-> NoChunk]

SpecTrain == InitTrain /\ [][TrainNext]_vars

(***************************************************************************)
(* The rollout drivers side by side: a behavior is a run of train() or the *)
(* life of one ArenaClient.                                                *)
(***************************************************************************)
InitDrivers == InitTrain \/ InitClient

DriversNext == TrainNext \/ ClientNext

SpecDrivers == InitDrivers /\ [][DriversNext]_vars

(***************************************************************************)
(* train.py: gas_advantage_metric.  The gas values are floats; here they   *)
(* are the whole numbers below 2^55, written hi * 2^30 + lo, and a sum is  *)
(* rounded as a double rounds it: to 53 significant bits, ties to even.    *)
(* Structures are absent or one cell, intact or destroyed, and there is no *)
(* base record, so that every product and the base term are exact.         *)
(***************************************************************************)
BigBase == 2^30

Big(n) == <<0, n>>

\* 2^53, the first double whose successor is two away
TwoTo53 == <<2^23, 0>>

BigAdd(a, b) ==
    LET lo == a[2] + b[2]
    IN  <<a[1] + b[1] + (lo \div BigBase), lo % BigBase>>

BigLess(a, b) == a[1] < b[1] \/ (a[1] = b[1] /\ a[2] < b[2])

\* a - b for a >= b
BigSub(a, b) ==
    IF a[2] >= b[2] THEN <<a[1] - b[1], a[2] - b[2]>>
    ELSE <<a[1] - b[1] - 1, a[2] + BigBase - b[2]>>

\* The spacing of the doubles around v, for v < 2^55.
Spacing(v) == IF v[1] < 2^23 THEN 1 ELSE IF v[1] < 2^24 THEN 2 ELSE 4

\* The double nearest to the whole number v, ties to even.
RoundToDouble(v) ==
    LET q == Spacing(v)
        r == v[2] % q
        down == <<v[1], v[2] - r>>
        up == BigAdd(down, Big(q))
    IN  IF r = 0 THEN v
        ELSE IF 2 * r < q THEN down
        ELSE IF 2 * r > q THEN up
        ELSE IF (v[2] \div q) % 2 = 0 THEN down ELSE up

\* a + b of two floats
FloatAdd(a, b) == RoundToDouble(BigAdd(a, b))

\* a - b of two floats: sign and magnitude
FloatSub(a, b) ==
    IF BigLess(a, b) THEN [negative |-> TRUE, magnitude |-> RoundToDouble(BigSub(b, a))]
    ELSE [negative |-> FALSE, magnitude |-> RoundToDouble(BigSub(a, b))]

\* _structure_hp_ratio(unit), for no structure or one cell with strain 0
_structure_hp_ratio(u) ==
    LET structure == Get(u, "structure", <<>>)
    IN  IF structure = <<>> THEN 1
        ELSE IF Get(structure[1], "destroyed", FALSE) THEN 0 ELSE 1

RECURSIVE OnFieldFrom(_, _, _, _, _)
OnFieldFrom(units, i, side, template_costs, value) ==
    IF i > Len(units) THEN value
    ELSE LET u == units[i]
             own == Get(u, "deploymentGasCost", Big(0))
             deploy_cost == IF own = Big(0)
                            THEN Get(template_costs, Get(u, "templateId", ""), Big(0))
                            ELSE own
             term == IF _structure_hp_ratio(u) = 1 THEN deploy_cost ELSE Big(0)
         IN  IF ~Get(u, "alive", TRUE) \/ Get(u, "side", "") # side
             THEN OnFieldFrom(units, i + 1, side, template_costs, value)
             ELSE OnFieldFrom(units, i + 1, side, template_costs, FloatAdd(value, term))

\* _on_field_gas_value(state, side, template_costs)
_on_field_gas_value(state, side, template_costs) ==
    OnFieldFrom(Get(state, "units", <<>>), 1, side, template_costs, Big(0))

\* gas_advantage_metric(snapshot, template_costs, base_hp_weight), for a
\* state without base records: both base ratios are 0.0 and the base term
\* base_hp_weight * (0.0 - 0.0) adds nothing.
gas_advantage_metric(snap, template_costs, base_hp_weight) ==
    LET state == StateOf(snap)
        player_gas == Get(snap, "player_gas", Big(0))
        enemy_gas == Get(snap, "enemy_gas", Get(state, "enemyGas", Big(0)))
        player_total == FloatAdd(player_gas, _on_field_gas_value(state, "player", template_costs))
        enemy_total == FloatAdd(enemy_gas, _on_field_gas_value(state, "enemy", template_costs))
    IN  FloatSub(enemy_total, player_total)

MaxMetricUnits == 3

\* _load_template_gas_costs()
TemplateCosts == [t \in {"tank"} |-> Big(2)]

MetricUnits ==
    {[side |-> "player", alive |-> TRUE, deploymentGasCost |-> Big(1)],
     [side |-> "player", alive |-> TRUE, deploymentGasCost |-> TwoTo53],
     [side |-> "player", alive |-> FALSE, deploymentGasCost |-> Big(1)],
     [side |-> "player", templateId |-> "tank",
      structure |-> <<[breakThreshold |-> 10, strain |-> 0, destroyed |-> FALSE]>>],
     [side |-> "enemy", deploymentGasCost |-> Big(1),
      structure |-> <<[breakThreshold |-> 10, strain |-> 0, destroyed |-> TRUE]>>],
     [side |-> "enemy", deploymentGasCost |-> Big(3)]}

MetricUnitLists == UNION {[1..n -> MetricUnits] : n \in 0..MaxMetricUnits}

PermutationsOf(n) ==
    {p \in [1..n -> 1..n] : \A i, j \in 1..n : p[i] = p[j] => i = j}

Permuted(units, p) == [i \in 1..Len(units) |-> units[p[i]]]

\* gas_advantage_metric is called on a snapshot and on the same snapshot
\* with its unit list permuted.
GasAdvantageMetricReturn ==
    /\ call.pc = "called"
    /\ call.fn = "gas_advantage_metric"
    /\ call' = [call EXCEPT
                   !.pc = "returned",
                   !.value = gas_advantage_metric(call.snapshot, TemplateCosts, 1000),
                   !.permuted_value = gas_advantage_metric(
                       [call.snapshot EXCEPT !.units = Permuted(@, call.permutation)],
                       TemplateCosts, 1000)]
    /\ UNCHANGED <<stageVars, client, service, run>>

MetricNext == GasAdvantageMetricReturn

InitMetric ==
    /\ StageIdle
    /\ client = [pc |-> "idle"]
    /\ service = FreshService
    /\ run = [pc |-> "idle"]
    /\ \E units \in MetricUnitLists, player_gas \in {Big(0), Big(1)} :
       \E p \in PermutationsOf(Len(units)) :
           call = [pc |-> "called", fn |-> "gas_advantage_metric",
                   snapshot |-> [units |-> units, player_gas |-> player_gas,
                                 enemy_gas |-> Big(0)],
                   permutation |-> p,
                   value |-> FloatSub(Big(0), Big(0)),
                   permuted_value |-> FloatSub(Big(0), Big(0))]

SpecMetric == InitMetric /\ [][MetricNext]_vars

(***************************************************************************)
(* features.py: the feature vectors of the three stages, in 1/FeatScale.   *)
(***************************************************************************)
FeatScale == 1000

\* (min_value, max_value) of the FeatureSpec lists, in 1/FeatScale.
TARGET_FEATURES ==
    <<<<1000, 1000>>, <<-1000, 2000>>, <<-1000, 2000>>, <<-2000, 2000>>,
      <<-2000, 2000>>, <<-2000, 2000>>, <<-2000, 2000>>, <<0, 2000>>,
      <<0, 3000>>, <<0, 1000>>, <<0, 1000>>, <<0, 2000>>, <<0, 1000>>,
      <<0, 2000>>>>

MOVEMENT_FEATURES ==
    <<<<1000, 1000>>, <<-1000, 2000>>, <<-1000, 2000>>, <<-2000, 2000>>,
      <<-2000, 2000>>, <<-2000, 2000>>, <<-2000, 2000>>, <<0, 2000>>,
      <<0, 2000>>, <<0, 1000>>, <<-2000, 2000>>, <<-2000, 2000>>,
      <<0, 1000>>, <<0, 1000>>>>

FIRE_FEATURES ==
    <<<<1000, 1000>>, <<0, 1000>>, <<0, 1000>>, <<0, 4000>>, <<-2000, 2000>>,
      <<-2000, 2000>>, <<0, 2000>>, <<-3000, 3000>>, <<-3000, 3000>>,
      <<-1000, 1000>>, <<-1000, 1000>>, <<0, 1000>>>>

FeatureClampf_unclamped(value, min_v, max_v) == value

\* features._clampf: max(min_v, min(max_v, value))
FeatureClampf(value, min_v, max_v) == Max2(min_v, Min2(max_v, value))

\* _clampf(a / b, lo, hi) for whole a and b >= 1, lo and hi whole numbers.
ClampedRatio(a, b, lo, hi) ==
    FeatureClampf(TDiv(a * FeatScale, b), lo * FeatScale, hi * FeatScale)

\* _battlefield_dims: width and height are floored at 1.0, diag is their
\* hypot (at least 1, so the "or 1.0" never applies).
_battlefield_dims(snap) ==
    LET battlefield == Get(snap, "battlefield", EmptyMap)
        width == Max2(1, Get(battlefield, "width", 2000))
        height == Max2(1, Get(battlefield, "height", 1000))
    IN  [width |-> width, height |-> height,
         diag |-> Max2(1, ISqrt(width * width + height * height))]

\* max(1.0, float(unit.get("max_speed", unit.get("maxSpeed", 1.0) or 1.0)))
MaxSpeedOf(u) ==
    LET camel == Get(u, "maxSpeed", 1)
    IN  Max2(1, Get(u, "max_speed", IF camel = 0 THEN 1 ELSE camel))

\* float(unit.get("weapon_count", unit.get("weaponCount", 0) or 0))
WeaponCountOf(u) == Get(u, "weapon_count", Get(u, "weaponCount", 0))

\* hypot(dx, dy), rounded down to a whole number
Hypot(dx, dy) == ISqrt(dx * dx + dy * dy)

\* The loop of _projectile_threat_and_nearest over projectiles[i..], from
\* the accumulator acc = [threat, best_d2, best_dx, best_dy]; best_d2 = -1
\* stands for float("inf").
RECURSIVE ThreatAndNearestFrom(_, _, _, _)
ThreatAndNearestFrom(u, projectiles, i, acc) ==
    IF i > Len(projectiles) THEN acc
    ELSE LET p == projectiles[i]
             dx == Get(p, "x", 0) - Get(u, "x", 0)
             dy == Get(p, "y", 0) - Get(u, "y", 0)
             d2 == Max2(1, dx * dx + dy * dy)
             nearer == acc.best_d2 = -1 \/ d2 < acc.best_d2
         IN  IF Get(p, "side", NoneVal) = Get(u, "side", NoneVal)
             THEN ThreatAndNearestFrom(u, projectiles, i + 1, acc)
             ELSE ThreatAndNearestFrom(u, projectiles, i + 1,
                      [threat |-> acc.threat + (20000 * FeatScale) \div d2,
                       best_d2 |-> IF nearer THEN d2 ELSE acc.best_d2,
                       best_dx |-> IF nearer THEN dx ELSE acc.best_dx,
                       best_dy |-> IF nearer THEN dy ELSE acc.best_dy])

_projectile_threat_and_nearest(u, projectiles) ==
    LET acc == ThreatAndNearestFrom(u, projectiles, 1,
                   [threat |-> 0, best_d2 |-> -1, best_dx |-> 0, best_dy |-> 0])
    IN  [threat |-> FeatureClampf(acc.threat, 0, FeatScale),
         dx |-> acc.best_dx, dy |-> acc.best_dy]

Flag(b) == IF b THEN FeatScale ELSE 0

\* _clampf(float(slot) / max(1.0, float(max_slots)), 0.0, 1.0)
SlotNorm(slot, max_slots) == ClampedRatio(slot, Max2(1, max_slots), 0, 1)

extract_target_features(u, enemy, slot, snap, max_slots) ==
    LET dims == _battlefield_dims(snap)
        ux == Get(u, "x", 0)
        uy == Get(u, "y", 0)
        max_speed == MaxSpeedOf(u)
        dx == Get(enemy, "x", 0) - ux
        dy == Get(enemy, "y", 0) - uy
    IN  <<FeatScale,
          ClampedRatio(ux, dims.width, -1, 2),
          ClampedRatio(uy, dims.height, -1, 2),
          ClampedRatio(Get(u, "vx", 0), max_speed, -2, 2),
          ClampedRatio(Get(u, "vy", 0), max_speed, -2, 2),
          ClampedRatio(dx, dims.width, -2, 2),
          ClampedRatio(dy, dims.height, -2, 2),
          ClampedRatio(Hypot(dx, dy), dims.diag, 0, 2),
          ClampedRatio(Hypot(Get(enemy, "vx", 0), Get(enemy, "vy", 0)),
                       Max2(1, max_speed), 0, 3),
          Flag(Get(enemy, "alive", TRUE)),
          Flag(Get(enemy, "type", NoneVal) = "air"),
          ClampedRatio(WeaponCountOf(enemy), 8, 0, 2),
          SlotNorm(slot, max_slots),
          ClampedRatio(WeaponCountOf(u), 8, 0, 2)>>

\* primary_target is a one-element sequence, or <<>> for None.
extract_movement_features(u, primary_target, desired_range, snap, engage_state_flag) ==
    LET dims == _battlefield_dims(snap)
        ux == Get(u, "x", 0)
        uy == Get(u, "y", 0)
        max_speed == MaxSpeedOf(u)
        tx == IF primary_target = <<>> THEN ux ELSE Get(primary_target[1], "x", 0)
        ty == IF primary_target = <<>> THEN uy ELSE Get(primary_target[1], "y", 0)
        dx == tx - ux
        dy == ty - uy
        near == _projectile_threat_and_nearest(u,
                    Get(StateOf(snap), "projectiles", <<>>))
    IN  <<FeatScale,
          ClampedRatio(ux, dims.width, -1, 2),
          ClampedRatio(uy, dims.height, -1, 2),
          ClampedRatio(Get(u, "vx", 0), max_speed, -2, 2),
          ClampedRatio(Get(u, "vy", 0), max_speed, -2, 2),
          ClampedRatio(dx, dims.width, -2, 2),
          ClampedRatio(dy, dims.height, -2, 2),
          ClampedRatio(Hypot(dx, dy), dims.diag, 0, 2),
          ClampedRatio(desired_range, dims.width, 0, 2),
          FeatureClampf(near.threat, 0, FeatScale),
          ClampedRatio(near.dx, dims.width, -2, 2),
          ClampedRatio(near.dy, dims.height, -2, 2),
          Flag(Get(u, "type", NoneVal) = "air"),
          FeatureClampf(engage_state_flag * FeatScale, 0, FeatScale)>>

\* unit.get("weapon_fire_timers", unit.get("weaponFireTimers", [])) or []
FireTimersOf(u) == Get(u, "weapon_fire_timers", Get(u, "weaponFireTimers", <<>>))

\* unit.get("weapon_ready_charges", unit.get("weaponReadyCharges", [])) or []
ReadyChargesOf(u) == Get(u, "weapon_ready_charges", Get(u, "weaponReadyCharges", <<>>))

\* assigned_target is a one-element sequence, or <<>> for None; movement_dir
\* is in 1/FeatScale; slot >= 0 indexes the lists from 0.
extract_fire_features(u, assigned_target, slot, movement_dir, snap, max_slots) ==
    LET dims == _battlefield_dims(snap)
        ux == Get(u, "x", 0)
        uy == Get(u, "y", 0)
        max_speed == MaxSpeedOf(u)
        none == assigned_target = <<>>
        tx == IF none THEN ux ELSE Get(assigned_target[1], "x", 0)
        ty == IF none THEN uy ELSE Get(assigned_target[1], "y", 0)
        tvx == IF none THEN 0 ELSE Get(assigned_target[1], "vx", 0)
        tvy == IF none THEN 0 ELSE Get(assigned_target[1], "vy", 0)
        dx == tx - ux
        dy == ty - uy
        fire_timers == FireTimersOf(u)
        ready_charges == ReadyChargesOf(u)
        cooldown_ready == IF slot < Len(fire_timers)
                          THEN Flag(fire_timers[slot + 1] <= 0)
                          ELSE FeatScale
        charges == IF slot < Len(ready_charges) THEN ready_charges[slot + 1] ELSE 0
        near == _projectile_threat_and_nearest(u,
                    Get(StateOf(snap), "projectiles", <<>>))
    IN  <<FeatScale,
          SlotNorm(slot, max_slots),
          FeatureClampf(cooldown_ready, 0, FeatScale),
          ClampedRatio(charges, 3, 0, 4),
          ClampedRatio(dx, dims.width, -2, 2),
          ClampedRatio(dy, dims.height, -2, 2),
          ClampedRatio(Hypot(dx, dy), dims.diag, 0, 2),
          ClampedRatio(tvx, max_speed, -3, 3),
          ClampedRatio(tvy, max_speed, -3, 3),
          FeatureClampf(movement_dir[1], -FeatScale, FeatScale),
          FeatureClampf(movement_dir[2], -FeatScale, FeatScale),
          FeatureClampf(near.threat, 0, FeatScale)>>

\* The inputs: units and targets with and without position, velocity,
\* speed, alive and weapon fields, far outside and inside the battlefield.
FeatureUnits ==
    {[side |-> "player"],
     [side |-> "player", x |-> 500, y |-> 250, vx |-> 3, vy |-> -4, max_speed |-> 2,
      type |-> "air", weapon_count |-> 2,
      weapon_fire_timers |-> <<0, 5>>, weapon_ready_charges |-> <<2, 20>>],
     [side |-> "player", x |-> -9000, y |-> 9000, vx |-> 50, vy |-> -50,
      maxSpeed |-> 0, weaponCount |-> 40, weaponFireTimers |-> <<7>>],
     [side |-> "enemy", x |-> 9000, y |-> -9000, max_speed |-> -3, weapon_count |-> -1]}

FeatureTargets ==
    {[side |-> "enemy"],
     [side |-> "enemy", x |-> 600, y |-> 250, vx |-> 1, vy |-> 1, alive |-> TRUE,
      type |-> "air", weapon_count |-> 3],
     [side |-> "enemy", x |-> -9000, y |-> 9000, vx |-> -90, vy |-> 120,
      alive |-> FALSE, weaponCount |-> 99]}

FeatureBattlefields ==
    {[width |-> w, height |-> h] : w \in {0, 2000}, h \in {0, 1000, -5}}
    \cup {EmptyMap, [width |-> 1]}

FeatureProjectiles ==
    {<<>>,
     <<[side |-> "enemy", x |-> 500, y |-> 251]>>,
     <<[side |-> "player", x |-> 0, y |-> 0], [side |-> "enemy", x |-> 9000, y |-> 0],
       [x |-> -9000, y |-> 30]>>}

FeatureSnapshots ==
    {[projectiles |-> p] : p \in FeatureProjectiles}
    \cup {[battlefield |-> b, projectiles |-> p] :
              b \in FeatureBattlefields, p \in FeatureProjectiles}
    \cup {[battlefield |-> [width |-> 0, height |-> 0],
           state |-> [units |-> <<>>, projectiles |-> p]] : p \in FeatureProjectiles}

FeatureSlots == {0, 1, 9}

FeatureMaxSlots == {0, 8}

ExtractTargetFeaturesReturn ==
    /\ call.pc = "called"
    /\ call.fn = "extract_target_features"
    /\ call' = [call EXCEPT !.pc = "returned",
                            !.value = extract_target_features(call.unit, call.target[1],
                                          call.slot, call.snapshot, call.max_slots)]
    /\ UNCHANGED <<stageVars, client, service, run>>

ExtractMovementFeaturesReturn ==
    /\ call.pc = "called"
    /\ call.fn = "extract_movement_features"
    /\ call' = [call EXCEPT !.pc = "returned",
                            !.value = extract_movement_features(call.unit, call.target,
                                          call.desired_range, call.snapshot,
                                          call.engage_state_flag)]
    /\ UNCHANGED <<stageVars, client, service, run>>

ExtractFireFeaturesReturn ==
    /\ call.pc = "called"
    /\ call.fn = "extract_fire_features"
    /\ call' = [call EXCEPT !.pc = "returned",
                            !.value = extract_fire_features(call.unit, call.target,
                                          call.slot, call.movement_dir, call.snapshot,
                                          call.max_slots)]
    /\ UNCHANGED <<stageVars, client, service, run>>

FeaturesNext ==
    \/ ExtractTargetFeaturesReturn
    \/ ExtractMovementFeaturesReturn
    \/ ExtractFireFeaturesReturn

InitFeatures ==
    /\ StageIdle
    /\ client = [pc |-> "idle"]
    /\ service = [open |-> {}, created |-> 0, closes |-> <<>>]
    /\ run = [pc |-> "idle"]
    /\ \E u \in FeatureUnits, snap \in FeatureSnapshots :
        \/ \E enemy \in FeatureTargets, slot \in FeatureSlots, max_slots \in FeatureMaxSlots :
               call = [pc |-> "called", fn |-> "extract_target_features", unit |-> u,
                       target |-> <<enemy>>, slot |-> slot, snapshot |-> snap,
                       max_slots |-> max_slots, value |-> <<>>]
        \/ \E target \in {<<>>} \cup {<<t>> : t \in FeatureTargets},
              desired_range \in {280, -50, 9000}, engage_state_flag \in {0, 1, 5} :
               call = [pc |-> "called", fn |-> "extract_movement_features", unit |-> u,
                       target |-> target, desired_range |-> desired_range,
                       snapshot |-> snap, engage_state_flag |-> engage_state_flag,
                       value |-> <<>>]
        \/ \E target \in {<<>>} \cup {<<t>> : t \in FeatureTargets},
              slot \in FeatureSlots, max_slots \in FeatureMaxSlots,
              movement_dir \in {<<0, 0>>, <<-3000, 500>>, <<1000, 7000>>} :
               call = [pc |-> "called", fn |-> "extract_fire_features", unit |-> u,
                       target |-> target, slot |-> slot, movement_dir |-> movement_dir,
                       snapshot |-> snap, max_slots |-> max_slots, value |-> <<>>]

SpecFeatures == InitFeatures /\ [][FeaturesNext]_vars

(***************************************************************************)
(* Properties of the target stage.                                         *)
(***************************************************************************)
SnapshotUnits == Get(StateOf(snapshot), "units", <<>>)

\* C1: every TargetPlan a target stage returns has a null primary target
\* when it has no assignment, and otherwise the target of its first
\* assignment as primary target.
C1_PrimaryIsFirstAssignment ==
    IF target_plan.assignments = <<>>
    THEN target_plan.primary_target_id = NoneVal
    ELSE target_plan.primary_target_id = target_plan.assignments[1].target_id

\* Every unit of the snapshot is dead or on the controlled unit's side.
NoLivingEnemy ==
    \A i \in 1..Len(SnapshotUnits) :
        \/ ~Get(SnapshotUnits[i], "alive", TRUE)
        \/ Get(SnapshotUnits[i], "side", NoneVal) = Get(unit, "side", NoneVal)

\* C2: when the controlled unit has no living enemy, the baseline and the
\* learned target stage both return no assignment and a null primary target.
C2_NoEnemyEmptyPlan ==
    (pc = "movement" /\ NoLivingEnemy) =>
        (target_plan.assignments = <<>> /\ target_plan.primary_target_id = NoneVal)

\* The learned target stage has just run on a snapshot whose only units of
\* another side are dead.
C2_Witness ==
    /\ pc = "movement"
    /\ cfg.target_kind = "neural"
    /\ NoLivingEnemy
    /\ \E i \in 1..Len(SnapshotUnits) :
           /\ Get(SnapshotUnits[i], "side", NoneVal) # Get(unit, "side", NoneVal)
           /\ ~Get(SnapshotUnits[i], "alive", TRUE)
    /\ target_plan = EmptyTargetPlan

(***************************************************************************)
(* Properties of the baseline fire stage.                                  *)
(***************************************************************************)
\* C3: with cadence c, a unit whose last non-empty fire plan was made at
\* step s gets no fire request at the steps strictly between s and s + c
\* and one request per assignment at step s + c; a unit that never fired is
\* not held back.  The record of the last shot moves exactly when a
\* non-empty plan is returned.
C3_CadenceGate ==
    (pc = "decided" /\ Truthy(_unit_id(unit))) =>
        LET t == fire_locals.step_index
            s == fire_locals.last_step
            c == cfg.cadence_steps
            n == Len(target_plan.assignments)
            OnePerAssignment ==
                /\ Len(fire_plan) = n
                /\ \A i \in 1..n :
                       /\ fire_plan[i].slot = target_plan.assignments[i].slot
                       /\ fire_plan[i].aim_x = target_plan.assignments[i].aim_x
                       /\ fire_plan[i].aim_y = target_plan.assignments[i].aim_y
        IN  /\ (s # NeverFired /\ s < t /\ t < s + c) => fire_plan = <<>>
            /\ (s # NeverFired /\ t = s + c) => OnePerAssignment
            /\ s = NeverFired => OnePerAssignment
            /\ fire_plan # <<>> => LastFireStep(ctx, _unit_id(unit)) = t
            /\ fire_plan = <<>> => LastFireStep(ctx, _unit_id(unit)) = s

\* A unit fires again exactly cadence_steps = 3 steps after its last shot.
C3_Witness ==
    /\ pc = "decided"
    /\ cfg.cadence_steps = 3
    /\ fire_locals.last_step # NeverFired
    /\ fire_locals.step_index = fire_locals.last_step + 3
    /\ fire_plan # <<>>

(***************************************************************************)
(* Properties of the baseline movement stage.                              *)
(***************************************************************************)
\* The living unit the movement stage resolves the primary target to.
Primary ==
    IF Truthy(target_plan.primary_target_id)
    THEN FindAliveById(SnapshotUnits, target_plan.primary_target_id)
    ELSE <<>>

PrimaryDx == Get(Primary[1], "x", 0) - Get(unit, "x", 0)

PrimaryDy == Get(Primary[1], "y", 0) - Get(unit, "y", 0)

PrimaryD2 == PrimaryDx * PrimaryDx + PrimaryDy * PrimaryDy

Threat == _threat_from_projectiles(unit, Get(StateOf(snapshot), "projectiles", <<>>))

Abs(a) == IF a >= 0 THEN a ELSE -a

\* (vx, vy) is, up to the rounding of the fixed-point arithmetic, the
\* vector of length 1 in the direction (dx, dy).
UnitVectorAlong(vx, vy, dx, dy) ==
    /\ Abs(vx * dy - vy * dx) <= Abs(dx) + Abs(dy)
    /\ vx * dx + vy * dy > 0
    /\ Abs(vx * vx + vy * vy - DirScale * DirScale) <= 4 * DirScale

\* C4: the direction the baseline movement stage returns lies within
\* [-1, 1] on both axes.
C4_DirectionClamped ==
    /\ -DirScale <= movement_plan.dir_x /\ movement_plan.dir_x <= DirScale
    /\ -DirScale <= movement_plan.dir_y /\ movement_plan.dir_y <= DirScale

\* The clamp has cut the horizontal component: approach and dodge add up to
\* more than 1 for a target that is not straight ahead.
C4_Witness ==
    /\ pc = "fire"
    /\ Primary # <<>>
    /\ PrimaryDx # 0 /\ PrimaryDy # 0
    /\ Threat = ThreatScale
    /\ movement_plan.dir_x = DirScale
    /\ movement_plan.dir_y # 0

SamePosition == Primary # <<>> /\ PrimaryD2 = 0

TooFar == cfg.desired_range < 0 \/ PrimaryD2 > cfg.desired_range * cfg.desired_range

TooClose == cfg.desired_range > 0 /\ 25 * PrimaryD2 < 9 * cfg.desired_range * cfg.desired_range

LowThreat == Threat * 100 <= 15 * ThreatScale

C8_TimeoutClosesSession ==
    (client.pc = "raised" /\ client.error = "TimeoutError") =>
        (client.battle_id \notin service.open /\ client.battle_id # NoBattle)

\* C9: run_until_terminal returns a terminal response, and raises
\* TimeoutError only when neither the first response nor any of the
\* max_steps step responses is terminal.
C9_TimeoutOnlyWithoutTerminal ==
    /\ client.pc = "returned" => client.returned.terminal
    /\ (client.pc = "raised" /\ client.error = "TimeoutError") => ~client.response.terminal

(***************************************************************************)
(* Properties of train().                                                  *)
(***************************************************************************)
\* The last chunk update had chunk_reward = +10, reward baseline 0, the
\* advantage-variance EMA at its initial value and one player log-probability.
C7_Case ==
    /\ run.pc = "train_loop"
    /\ run.chunk.valid
    /\ run.chunk.chunk_reward = 10 * RewardScale
    /\ run.chunk.baseline_before = 0
    /\ run.chunk.var_before = 1 * RewardScale * RewardScale
    /\ Len(run.chunk.log_probs) = 1

\* C7 (as stated): at a chunk boundary with chunk_reward = +10, baseline 0,
\* initial variance EMA and one stored log-probability, the normalized
\* advantage is strictly positive and the policy loss is strictly negative.
C7_Original ==
    C7_Case => (run.chunk.advantage_norm > 0 /\ run.chunk.player_loss < 0)

\* C7: at a chunk boundary with chunk_reward = +10, baseline 0, initial
\* variance EMA and one stored log-probability lp, the normalized advantage
\* is strictly positive and the policy loss is -advantage_norm * lp: strictly
\* positive for a negative log-probability, strictly negative only for a
\* positive one.
C7_LossOpposesLogProb ==
    C7_Case =>
        LET lp == run.chunk.log_probs[1]
        IN  /\ run.chunk.advantage_norm > 0
            /\ run.chunk.player_loss = 0 - run.chunk.advantage_norm * lp
            /\ lp < 0 => run.chunk.player_loss > 0
            /\ lp > 0 => run.chunk.player_loss < 0

C7_Witness ==
    /\ C7_Case
    /\ run.chunk.log_probs[1] < 0
    /\ run.chunk.player_loss > 0
    /\ run.chunk.stepped

RECURSIVE CountIn(_, _)
CountIn(seq, x) ==
    IF seq = <<>> THEN 0
    ELSE (IF Head(seq) = x THEN 1 ELSE 0) + CountIn(Tail(seq), x)

\* The battle id the running episode loop holds, if a loop is running.
LoopBattle ==
    IF run.pc = "bc_loop" THEN {run.bc.battle_id}
    ELSE IF run.pc = "train_loop" THEN {run.battle_id}
    ELSE IF run.pc = "eval_loop" THEN {run.eval.battle_id}
    ELSE {}

\* C10: within one train() run at most one battle session is open at any
\* time; every session created with a battle id is closed exactly once
\* before the next CreateBattle, whether its episode ended by the terminal
\* flag or by the step ceiling; and the run fails only for a missing battle
\* id or for an empty set of models, never for a step ceiling.
C10_OneSessionAtATime ==
    /\ Cardinality(service.open) <= 1
    /\ service.open = LoopBattle
    /\ NoBattle \notin service.open
    /\ \A id \in 1..service.created :
        CountIn(service.closes, id) = (IF id \in service.open THEN 0 ELSE 1)
    /\ Len(service.closes) = service.created - Cardinality(service.open)
    /\ run.pc = "failed" =>
        run.error \in {"RuntimeError: missing battle_id", "RuntimeError: no neural modules"}

\* A training episode ended by the step ceiling, its session is closed, and
\* the run is in the next episode with a new session.
C10_Witness ==
    /\ run.pc = "eval_loop"
    /\ ~run.terminal
    /\ run.step = run.cfg.max_steps_per_episode
    /\ run.battle_id \notin service.open
    /\ CountIn(service.closes, run.battle_id) = 1
    /\ service.open = {run.eval.battle_id}
    /\ run.eval.battle_id # run.battle_id

\* A training episode whose loop has just been left by the step ceiling.
CeilingReached ==
    /\ run.pc = "train_loop"
    /\ ~run.terminal
    /\ run.step >= run.cfg.max_steps_per_episode

\* C11 (as stated): an episode that ends by the step ceiling has finalized
\* no chunk: no chunk update was made during it.
C11_Original == CeilingReached => ~run.chunk.valid

\* C11: leaving the loop by the step ceiling finalizes nothing: closing the
\* battle changes neither the reward baseline nor the variance EMA, and the
\* partial chunk accumulated since the last boundary is dropped.  The chunks
\* at the earlier boundaries of the episode (every chunk_steps steps, the
\* ceiling step included when it is a multiple of chunk_steps) have been
\* finalized when they were reached.
C11_CeilingDropsPartialChunk ==
    /\ [](CeilingReached =>
            /\ run.chunk.valid <=> (run.step >= run.chunk_steps)
            /\ (run.step % run.chunk_steps = 0) =>
                    (run.raw_chunk_reward = 0 /\ run.chunk_log_probs.player = <<>>))
    /\ [][CeilingReached =>
            /\ run'.reward_baseline = run.reward_baseline
            /\ run'.adv_var_ema = run.adv_var_ema
            /\ ~run'.chunk.valid]_vars

\* An episode was cut by the ceiling inside a chunk: its partial reward and
\* log-probability are left behind and no update has been made in the run.
C11_Witness ==
    /\ run.pc \in {"train_create", "eval_create"}
    /\ ~run.terminal
    /\ run.step = run.cfg.max_steps_per_episode
    /\ run.step % run.chunk_steps # 0
    /\ run.raw_chunk_reward # 0
    /\ run.chunk_log_probs.player # <<>>
    /\ run.reward_baseline = 0
    /\ run.adv_var_ema = 1 * RewardScale * RewardScale

(***************************************************************************)
(* Properties of all rollout drivers.                                      *)
(***************************************************************************)
\* The numbers a training update changes.
Learned == <<run.reward_baseline, run.adv_var_ema, run.chunk>>

\* C12: when a create response carries no battle id, the episode is aborted
\* with no callback invocation, no StepBattle call and no update of the
\* baseline or of the variance EMA: train() fails at once, behavior cloning
\* and evaluation go to their next episode, run_until_terminal raises
\* before its loop; an episode loop only ever runs with a battle id.
C12_MissingIdAborts ==
    /\ [](/\ run.pc = "bc_loop" => run.bc.battle_id \in service.open
          /\ run.pc = "train_loop" => run.battle_id \in service.open
          /\ run.pc = "eval_loop" => run.eval.battle_id \in service.open
          /\ client.pc = "loop" => client.battle_id # NoBattle
          /\ NoBattle \notin service.open)
    /\ [][/\ (run.pc = "train_create" /\ run.episode < run.cfg.episodes
                /\ service' = service /\ run' # run)
              => (run'.pc = "failed" /\ Learned' = Learned)
          /\ (run.pc = "bc_create" /\ run.bc.ep < run.cfg.bc_episodes
                /\ service' = service /\ run' # run)
              => (run'.pc = "bc_create" /\ run'.bc.ep = run.bc.ep + 1
                  /\ Learned' = Learned)
          /\ (run.pc = "eval_create" /\ run.eval.ep < run.cfg.eval_episodes
                /\ service' = service /\ run' # run)
              => (run'.pc = "eval_create" /\ run'.eval.ep = run.eval.ep + 1
                  /\ Learned' = Learned)
          /\ run.pc = "failed" => (run' = run /\ service' = service)
          /\ (client.pc = "started" /\ client.response.battle_id = NoBattle
                /\ client' # client)
              => (client'.pc = "raised" /\ client'.callbacks = client.callbacks
                  /\ client'.ctx = client.ctx /\ service' = service)]_vars

\* train() has failed on a create response without battle id, after an
\* earlier episode with a session.
C12_Witness ==
    /\ run.pc = "failed"
    /\ run.error = "RuntimeError: missing battle_id"
    /\ run.episode >= 1
    /\ service.created >= 1
    /\ service.open = {}

(***************************************************************************)
(* Further properties of train().                                          *)
(***************************************************************************)
\* C13: with no learned stage enabled, train() fails with a configuration
\* error at run start: the stub is never built, no battle session is
\* created, and no behavior-cloning or training step is made.  (And no run
\* talks to the service without its stub.)
C13_NoModelsFailsAtStart ==
    /\ (run.cfg.models = {} /\ run.pc # "begin") =>
            /\ run.pc = "failed"
            /\ run.error = "RuntimeError: no neural modules"
            /\ ~run.stub
            /\ service = FreshService
            /\ run.bc = NoEpisode /\ run.episode = 0 /\ run.step = 0
            /\ run.reward_baseline = 0
            /\ run.adv_var_ema = 1 * RewardScale * RewardScale
            /\ ~run.chunk.valid
    /\ service.created > 0 => run.stub
    /\ run.pc \notin {"begin", "failed"} => run.stub

C13_Witness ==
    /\ run.cfg.models = {}
    /\ run.pc = "failed"
    /\ run.error = "RuntimeError: no neural modules"
    /\ ~run.stub

(***************************************************************************)
(* Properties of AIComposer.decide_unit and AIComposer.callback.           *)
(***************************************************************************)
StageOrder ==
    {<<"target", "movement">>, <<"movement", "fire">>, <<"fire", "decided">>,
     <<"decided", "target">>}

\* C14: decide_unit runs Target, Movement, Fire in this order; Movement
\* works on the plan Target returned and Fire on both plans; the command's
\* facing is +1 when the first assignment's aim_x >= the unit's x, -1 when
\* it is smaller, and 0 exactly when the target plan has no assignment.
C14_StageOrderAndFacing ==
    /\ [][pc' # pc => <<pc, pc'>> \in StageOrder]_vars
    /\ [](pc \in {"fire", "decided"} =>
            movement_plan = BaselineMovementPlan(unit, snapshot, target_plan))
    /\ [](pc = "decided" =>
            /\ command.fire_requests = fire_plan
            /\ Len(fire_plan) \in {0, Len(target_plan.assignments)}
            /\ \A i \in 1..Len(fire_plan) :
                /\ fire_plan[i].intended_target_id = target_plan.assignments[i].target_id
                /\ fire_plan[i].aim_x = target_plan.assignments[i].aim_x
            /\ command.move.dir_x = movement_plan.dir_x
            /\ command.move.dir_y = movement_plan.dir_y
            /\ command.facing \in {0 - 1, 0, 1}
            /\ command.facing = 0 <=> target_plan.assignments = <<>>
            /\ \A a \in {target_plan.assignments[i] : i \in 1..Min2(1, Len(target_plan.assignments))} :
                /\ a.aim_x >= Get(unit, "x", 0) => command.facing = 1
                /\ a.aim_x < Get(unit, "x", 0) => command.facing = 0 - 1)

\* A decided unit whose target is on its left: it faces -1, moves and fires.
C14_Witness ==
    /\ pc = "decided"
    /\ target_plan.assignments # <<>>
    /\ target_plan.assignments[1].aim_x < Get(unit, "x", 0)
    /\ command.facing = 0 - 1
    /\ command.fire_requests # <<>>
    /\ command.move.dir_x < 0

\* A pending unit that is alive and has a resolvable id.
Qualifies(u) ==
    /\ Get(u, "alive", TRUE)
    /\ \/ Get(u, "unit_id", "") # ""
       \/ Get(u, "id", "") # ""

ResolvedId(u) ==
    IF Get(u, "unit_id", "") # "" THEN u.unit_id ELSE Get(u, "id", "")

\* C15: callback returns, in pending order, exactly one command for each
\* pending unit that is alive and has a non-empty unit_id or id, and none
\* for a dead unit or a unit without a resolvable id.
C15_CallbackCommands ==
    batch.pc \in {"loop", "returned"} =>
        LET done == SubSeq(batch.pending_units, 1, batch.i - 1)
            expected == SelectSeq(done, Qualifies)
        IN  /\ Len(batch.commands) = Len(expected)
            /\ \A k \in 1..Len(expected) :
                batch.commands[k].unit_id = ResolvedId(expected[k])
            /\ batch.pc = "returned" => batch.i = Len(batch.pending_units) + 1

\* callback has returned one command for two pending units, of which one
\* is dead or without id.
C15_Witness ==
    /\ batch.pc = "returned"
    /\ Len(batch.pending_units) = 2
    /\ Len(batch.commands) = 1
    /\ batch.commands[1].unit_id = "u2"
    /\ Get(batch.pending_units[1], "alive", TRUE)

(***************************************************************************)
(* Properties of gas_advantage_metric.                                     *)
(***************************************************************************)
\* C16: gas_advantage_metric returns the same value for every permutation
\* of the snapshot's unit list.
C16_PermutationInvariant ==
    (call.pc = "returned" /\ call.fn = "gas_advantage_metric") =>
        call.value = call.permuted_value

(***************************************************************************)
(* Properties of a composer in evaluation mode.                            *)
(***************************************************************************)
\* No stage samples: sample_actions is false or the context does not
\* collect log-probabilities.
EvaluationMode == ~(cfg.sample_actions /\ ctx._collect_log_probs)

SomeStageLearned == "neural" \in {cfg.target_kind, cfg.movement_kind, cfg.fire_kind}

SecondCallDecided == pc = "decided" /\ call.pc = "again"

\* C17 as stated: a composer with a learned stage in evaluation mode
\* returns the same command for two calls of decide_unit with the same
\* unit, snapshot and parameters, and appends no log-probability.
C17_Original ==
    (SecondCallDecided /\ EvaluationMode /\ SomeStageLearned) =>
        /\ command = call.first
        /\ ctx._policy_log_probs = <<>>

\* C17: in evaluation mode every stage appends nothing to the
\* log-probability list, and two calls of decide_unit with the same unit,
\* snapshot and parameters return the same target, movement and facing; the
\* fire requests are the same too when the fire stage is the learned one,
\* while a baseline fire stage that fired in the first call answers the
\* second call of the same step with no fire request.
C17_EvaluationIsDeterministic ==
    (SecondCallDecided /\ EvaluationMode) =>
        /\ ctx._policy_log_probs = <<>>
        /\ command.unit_id = call.first.unit_id
        /\ command.move = call.first.move
        /\ command.facing = call.first.facing
        /\ cfg.fire_kind = "neural" => command = call.first
        /\ cfg.fire_kind = "baseline" => command.fire_requests = <<>>

\* The second call of a composer with three learned stages in evaluation
\* mode has returned a command with a fire request.
C17_Witness ==
    /\ SecondCallDecided
    /\ EvaluationMode
    /\ cfg.target_kind = "neural"
    /\ cfg.movement_kind = "neural"
    /\ cfg.fire_kind = "neural"
    /\ cfg.sample_actions
    /\ command.fire_requests # <<>>
    /\ command = call.first

(***************************************************************************)
(* Properties of the decision context at the start of an episode.          *)
(***************************************************************************)
\* The context carries nothing of an earlier episode: its step counters are
\* 0 and it has no last-fire record.
FreshContext(c) ==
    /\ Get(c, "steps", 0) = 0
    /\ Get(c, "episode_steps", 0) = 0
    /\ FireRecord(c) = EmptyMap

\* The episode loops of train.py are at their first decision.
TrainFirstDecision == run.pc = "train_loop" /\ run.step = 0
BcFirstDecision == run.pc = "bc_loop" /\ run.bc.step = 0
EvalFirstDecision == run.pc = "eval_loop" /\ run.eval.step = 0

\* run_until_terminal is at the first iteration of its loop and is about to
\* call the callback.
ClientFirstDecision ==
    /\ client.pc = "loop"
    /\ client.iter = 0
    /\ client.iter < client.max_steps
    /\ ~client.response.terminal

\* C18: at the first decision of every episode the decision context carries
\* no state of an earlier episode, under train, behavior cloning,
\* evaluation and repeated run_until_terminal calls on one client.
C18_FreshContextPerEpisode ==
    /\ TrainFirstDecision => FreshContext(run.ctx)
    /\ BcFirstDecision => FreshContext(run.bc.ctx)
    /\ EvalFirstDecision => FreshContext(run.eval.ctx)
    /\ ClientFirstDecision => FreshContext(client.ctx)

\* The part of C18 about the three drivers of train.py.
C18_TrainDriversFresh ==
    /\ TrainFirstDecision => FreshContext(run.ctx)
    /\ BcFirstDecision => FreshContext(run.bc.ctx)
    /\ EvalFirstDecision => FreshContext(run.eval.ctx)

\* A later episode of train() with a baseline fire stage is at its first
\* decision after an episode that left a last-fire record.
C18_TrainWitness ==
    /\ TrainFirstDecision
    /\ run.episode >= 1
    /\ BaselineFire(run.cfg.models)

(***************************************************************************)
(* Properties of the feature extractors.                                   *)
(***************************************************************************)
SpecsOf(fn) ==
    IF fn = "extract_target_features" THEN TARGET_FEATURES
    ELSE IF fn = "extract_movement_features" THEN MOVEMENT_FEATURES
    ELSE FIRE_FEATURES

FeaturesReturned ==
    /\ call.pc = "returned"
    /\ call.fn \in {"extract_target_features", "extract_movement_features",
                     "extract_fire_features"}

\* C19: the three extractors return vectors of length 14, 14 and 12 whose
\* first element is 1.0 and whose i-th element lies within min_value and
\* max_value of the i-th FeatureSpec, whatever the battlefield, the
\* positions and the velocities.
C19_FeaturesWithinSpecs ==
    FeaturesReturned =>
        /\ Len(call.value) = (IF call.fn = "extract_fire_features" THEN 12 ELSE 14)
        /\ Len(call.value) = Len(SpecsOf(call.fn))
        /\ call.value[1] = FeatScale
        /\ \A i \in 1..Len(call.value) :
               /\ SpecsOf(call.fn)[i][1] <= call.value[i]
               /\ call.value[i] <= SpecsOf(call.fn)[i][2]

\* extract_target_features has returned for a battlefield of width and
\* height 0 and a unit far outside it, with elements at both ends of
\* their ranges.
C19_Witness ==
    /\ FeaturesReturned
    /\ call.fn = "extract_target_features"
    /\ "battlefield" \in DOMAIN call.snapshot
    /\ Get(call.snapshot.battlefield, "width", 2000) = 0
    /\ Get(call.snapshot.battlefield, "height", 1000) = 0
    /\ call.value[2] = 0 - FeatScale
    /\ call.value[3] = 2 * FeatScale
    /\ "vx" \notin DOMAIN call.target[1]

(***************************************************************************)
(* Properties of the chunk boundaries of train().                          *)
(***************************************************************************)
\* The episode loop of train() has run at least one step.
TrainStepped == run.pc = "train_loop" /\ run.step > 0

\* The last step was a multiple of chunk_steps or its response terminal.
AtBoundaryStep == run.step % run.chunk_steps = 0 \/ run.terminal

\* C20: in train() a chunk is finalized exactly at the steps that are a
\* multiple of chunk_steps (chunk_steps >= 1) or whose response is terminal;
\* the raw chunk reward is the sum of the step rewards since the previous
\* boundary, each of them counted in that one chunk; after a boundary the
\* accumulator is 0 and the log-probability and entropy lists of both
\* sides are empty.
C20_ChunkBoundaries ==
    TrainStepped =>
        /\ run.chunk_steps >= 1
        /\ (run.since = <<>>) <=> AtBoundaryStep
        /\ run.raw_chunk_reward = SeqSum(run.since)
        /\ ~AtBoundaryStep => Len(run.since) = run.step % run.chunk_steps
        /\ AtBoundaryStep =>
               /\ run.chunk.valid
               /\ run.chunk.n = (IF run.step % run.chunk_steps = 0
                                 THEN run.chunk_steps
                                 ELSE run.step % run.chunk_steps)
               /\ run.chunk.chunk_reward =
                      _clampf(run.chunk.counted, 0 - run.cfg.reward_clip_abs,
                              run.cfg.reward_clip_abs)
               /\ run.raw_chunk_reward = 0
               /\ run.chunk_log_probs = [player |-> <<>>, enemy |-> <<>>]
               /\ run.chunk_entropies = [player |-> <<>>, enemy |-> <<>>]

\* The second step of an episode with chunk_steps = 2 has closed a chunk of
\* two step rewards with log-probabilities, and the lists are empty again.
C20_Witness ==
    /\ TrainStepped
    /\ run.chunk_steps = 2
    /\ run.step = 2
    /\ ~run.terminal
    /\ run.chunk.n = 2
    /\ run.chunk.counted # 0
    /\ run.chunk.log_probs # <<>>
    /\ run.raw_chunk_reward = 0

(***************************************************************************)
(* Properties of the terminal bonus and the clipping of chunk rewards.     *)
(***************************************************************************)
\* A chunk has just been finalized by the last step of the episode loop.
ChunkJustFinalized == TrainStepped /\ AtBoundaryStep /\ run.chunk.valid

\* The sums n step rewards without a bonus can have.
MetricSums(n) ==
    {run.cfg.metric_delta_weight * SeqSum(seq) : seq \in [1..n -> StepRewards]}

\* C21: the bonus of a terminal step is +terminal_reward_scale on a victory
\* of the player side and -terminal_reward_scale otherwise, 0 on other
\* steps; it is part of the raw reward the final chunk clips, and every
\* finalized chunk reward lies within [-reward_clip_abs, reward_clip_abs].
C21_BonusBeforeClipping ==
    ChunkJustFinalized =>
        LET c == run.cfg
            k == run.chunk
        IN  /\ k.bonus = (IF ~run.terminal THEN 0
                          ELSE IF k.victory THEN c.terminal_reward_scale
                          ELSE 0 - c.terminal_reward_scale)
            /\ (k.counted - k.bonus) \in MetricSums(k.n)
            /\ k.chunk_reward = _clampf(k.counted, 0 - c.reward_clip_abs, c.reward_clip_abs)
            /\ 0 - c.reward_clip_abs <= k.chunk_reward
            /\ k.chunk_reward <= c.reward_clip_abs

\* A lost terminal step has pushed the raw reward of its chunk below the
\* clip, and the chunk reward is the lower bound.
C21_Witness ==
    /\ ChunkJustFinalized
    /\ run.terminal
    /\ ~run.chunk.victory
    /\ run.chunk.bonus < 0
    /\ run.chunk.counted < 0 - run.cfg.reward_clip_abs
    /\ run.chunk.counted - run.chunk.bonus >= 0 - run.cfg.reward_clip_abs
    /\ run.chunk.chunk_reward = 0 - run.cfg.reward_clip_abs

(***************************************************************************)
(* Properties of the baseline and the variance averages.                   *)
(***************************************************************************)
\* A step of the episode loop of train() is taken.
TrainStepTaken ==
    /\ run.pc = "train_loop"
    /\ run'.pc = "train_loop"
    /\ run'.step = run.step + 1

\* C22: at a chunk boundary the advantage is the clipped chunk reward less
\* the baseline as it was before the boundary; the variance average and
\* the baseline are then updated once, with that advantage squared and
\* that chunk reward, whether or not a log-probability was stored; nothing
\* else changes the two averages.
C22_AveragesUpdatedOnce ==
    [][IF TrainStepTaken /\ (run'.step % run'.chunk_steps = 0 \/ run'.terminal)
       THEN LET c == run.cfg
                k == run'.chunk
            IN  /\ k.valid
                /\ k.advantage = k.chunk_reward - run.reward_baseline
                /\ run'.adv_var_ema =
                       TDiv(c.adv_var_beta * run.adv_var_ema
                            + (Percent - c.adv_var_beta) * (k.advantage * k.advantage),
                            Percent)
                /\ run'.reward_baseline =
                       TDiv(c.baseline_beta * run.reward_baseline
                            + (Percent - c.baseline_beta) * k.chunk_reward,
                            Percent)
       ELSE /\ run'.reward_baseline = run.reward_baseline
            /\ run'.adv_var_ema = run.adv_var_ema]_vars

\* A second boundary of a run has moved both averages although no
\* log-probability was stored and the optimizer step was skipped.
C22_Witness ==
    /\ ChunkJustFinalized
    /\ run.chunk.log_probs = <<>>
    /\ ~run.chunk.stepped
    /\ run.chunk.baseline_before # 0
    /\ run.chunk.advantage = run.chunk.chunk_reward - run.chunk.baseline_before
    /\ run.reward_baseline # run.chunk.baseline_before
    /\ run.adv_var_ema # run.chunk.var_before

(***************************************************************************)
(* Properties of the enemy side's log-probabilities.                       *)
(***************************************************************************)
\* C23: with train_enemy_side false no enemy-side log-probability is stored
\* or enters a loss, the enemy-side decisions being made without sampling;
\* with train_enemy_side true the enemy-side loss of a boundary is that of
\* the stored enemy log-probabilities under the normalized advantage with
\* its sign flipped, which is advantage_norm * mean(log-probabilities).
C23_EnemySideLogProbs ==
    /\ [](run.pc = "train_loop" /\ ~run.cfg.train_enemy_side =>
              /\ run.chunk_log_probs.enemy = <<>>
              /\ run.chunk.enemy_loss = 0)
    /\ [][(TrainStepTaken /\ run.cfg.train_enemy_side) =>
              \E lps \in TickLogProbs(run.cfg.models) :
                  LET stored == run.chunk_log_probs.enemy \o lps
                  IN  IF run'.step % run'.chunk_steps = 0 \/ run'.terminal
                      THEN /\ run'.chunk_log_probs.enemy = <<>>
                           /\ run'.chunk.enemy_loss =
                                  (IF stored = <<>> THEN 0
                                   ELSE run'.chunk.advantage_norm * Mean(stored))
                      ELSE run'.chunk_log_probs.enemy = stored]_vars

\* A boundary with train_enemy_side true and a negative advantage: the
\* enemy loss is the opposite of the player loss on the same
\* log-probabilities.
C23_Witness ==
    /\ ChunkJustFinalized
    /\ run.cfg.train_enemy_side
    /\ run.chunk.advantage_norm < 0
    /\ run.chunk.enemy_loss > 0
    /\ run.chunk.player_loss < 0

(***************************************************************************)
(* Properties of the stored entropies.                                     *)
(***************************************************************************)
\* C24: at every chunk boundary the trained side has as many stored
\* entropies as stored log-probabilities, so the loss has its entropy term
\* whenever it has a log-probability.
C24_EntropiesRecorded ==
    ChunkJustFinalized =>
        /\ Len(run.chunk.entropies) = Len(run.chunk.log_probs)
        /\ run.chunk.log_probs # <<>> => run.chunk.entropies # <<>>

(***************************************************************************)
(* Properties of the assignments of the target stages.                     *)
(***************************************************************************)
\* The living enemies of the unit in the snapshot.
LivingEnemies == _alive_enemies_of(unit, Get(StateOf(snapshot), "units", <<>>))

\* The target stage has just run.
TargetAssigned(kind) == pc = "movement" /\ cfg.target_kind = kind

\* C25: with a living enemy, NeuralTargetModule.assign returns
\* min(max_slots, weapon_count) assignments for every weapon_count >= 0,
\* for the slots 0, 1, ... in increasing order, each on a living enemy.
C25_NeuralSlots ==
    (TargetAssigned("neural") /\ LivingEnemies # <<>>
     /\ Get(unit, "weapon_count", 1) >= 0) =>
        LET assignments == target_plan.assignments
        IN  /\ Len(assignments) = Min2(cfg.max_slots, Get(unit, "weapon_count", 1))
            /\ \A i \in 1..Len(assignments) :
                   /\ assignments[i].slot = i - 1
                   /\ \E k \in 1..Len(LivingEnemies) :
                          assignments[i].target_id = Get(LivingEnemies[k], "id", "")

\* The unit of the snapshot at index k is alive and on another side than the
\* controlled unit.
IsLivingEnemy(k) ==
    /\ Get(SnapshotUnits[k], "alive", TRUE)
    /\ Get(SnapshotUnits[k], "side", NoneVal) # Get(unit, "side", NoneVal)

SquaredDistanceTo(k) ==
    _distance2(Get(unit, "x", 0), Get(unit, "y", 0),
               Get(SnapshotUnits[k], "x", 0), Get(SnapshotUnits[k], "y", 0))

\* The unit at index k is the living enemy at minimal distance, the first in
\* list order among those at that distance.
FirstNearest(k) ==
    /\ IsLivingEnemy(k)
    /\ \A j \in 1..Len(SnapshotUnits) :
           IsLivingEnemy(j) =>
               /\ SquaredDistanceTo(k) <= SquaredDistanceTo(j)
               /\ j < k => SquaredDistanceTo(k) < SquaredDistanceTo(j)

\* C26: with a living enemy, BaselineTargetModule.assign picks the nearest
\* living unit of another side as primary target, the first in list order on
\* ties, and returns one assignment per slot 0..weapon_count-1, each with the
\* target's id, its position as aim point and score 1.0.
C26_BaselineNearest ==
    (TargetAssigned("baseline")
     /\ \E k \in 1..Len(SnapshotUnits) : IsLivingEnemy(k)) =>
        \E k \in 1..Len(SnapshotUnits) :
            /\ FirstNearest(k)
            /\ target_plan.primary_target_id = Get(SnapshotUnits[k], "id", "")
            /\ Len(target_plan.assignments) = Max2(0, Get(unit, "weapon_count", 1))
            /\ \A i \in 1..Len(target_plan.assignments) :
                   target_plan.assignments[i] =
                       [slot |-> i - 1,
                        target_id |-> Get(SnapshotUnits[k], "id", ""),
                        aim_x |-> Get(SnapshotUnits[k], "x", 0),
                        aim_y |-> Get(SnapshotUnits[k], "y", 0),
                        score |-> DirScale]

\* Two living enemies at the same distance and a unit with two weapons: the
\* earlier of the two is the target of both slots.
C26_Witness ==
    /\ TargetAssigned("baseline")
    /\ Len(target_plan.assignments) = 2
    /\ \E k, j \in 1..Len(SnapshotUnits) :
           /\ k < j
           /\ IsLivingEnemy(k) /\ IsLivingEnemy(j)
           /\ SquaredDistanceTo(k) = SquaredDistanceTo(j)
           /\ target_plan.primary_target_id = Get(SnapshotUnits[k], "id", "")

(***************************************************************************)
(* Properties of BaselineMovementModule.plan.                              *)
(***************************************************************************)
\* The movement stage has just run with the baseline module.
MovementPlanned == pc = "fire" /\ cfg.movement_kind = "baseline"

\* The sum of 20000 / max(1, d^2) over the projectiles of another side than
\* the unit's is more than 0.5: the sum of the whole parts of 20000000 / d^2
\* is more than 500 (the part lost is below 1/1000 per projectile).
RECURSIVE ForeignThreat(_)
ForeignThreat(i) ==
    LET projectiles == Get(StateOf(snapshot), "projectiles", <<>>)
    IN  IF i > Len(projectiles) THEN 0
        ELSE LET dx == Get(projectiles[i], "x", 0) - Get(unit, "x", 0)
                 dy == Get(projectiles[i], "y", 0) - Get(unit, "y", 0)
             IN  (IF Get(projectiles[i], "side", NoneVal) # Get(unit, "side", NoneVal)
                  THEN 20000000 \div Max2(1, dx * dx + dy * dy) ELSE 0)
                 + ForeignThreat(i + 1)

ThreatAboveHalf == Min2(1000, Max2(0, ForeignThreat(1))) > 500

\* The primary target of the plan is a living unit of the snapshot.
PrimaryLives ==
    /\ Truthy(target_plan.primary_target_id)
    /\ \E k \in 1..Len(SnapshotUnits) :
           /\ Get(SnapshotUnits[k], "id", "") = target_plan.primary_target_id
           /\ Get(SnapshotUnits[k], "alive", TRUE)

\* C27: BaselineMovementModule.plan permits descent only for a unit of type
\* air under a projectile threat above 0.5, and returns zero movement
\* without descent when the primary target is null, unknown or dead.
C27_DescentAndNoTarget ==
    MovementPlanned =>
        /\ movement_plan.allow_descend =>
               (Get(unit, "type", NoneVal) = "air" /\ ThreatAboveHalf)
        /\ ~PrimaryLives => movement_plan = ZeroMovementPlan

\* An air unit under threat descends toward a living target.
C27_Witness ==
    /\ MovementPlanned
    /\ movement_plan.allow_descend
    /\ PrimaryLives

\* The plan for a dead primary target, with a threat that would otherwise
\* permit descent.
C27_DeadTargetReached ==
    /\ MovementPlanned
    /\ target_plan.primary_target_id = "e1"
    /\ ~PrimaryLives
    /\ Get(unit, "type", NoneVal) = "air" /\ ThreatAboveHalf

(***************************************************************************)
(* The step counter of the cadence gate under the rollout drivers.         *)
(***************************************************************************)
\* run_until_terminal has submitted one more simulation step for a client
\* whose callback is the composer.
ClientStepSubmitted ==
    /\ client.pc = "loop"
    /\ client.composer_callback
    /\ client'.pc = "loop"
    /\ client'.iter = client.iter + 1

\* C28: under every rollout driver, ArenaClient.run_until_terminal among
\* them, the step counter BaselineFireModule's cadence gate reads from the
\* decision context grows by exactly one per submitted simulation step.
C28_StepCounterAdvances ==
    [][ClientStepSubmitted =>
          Get(client'.ctx, "steps", 0) = Get(client.ctx, "steps", 0) + 1]_vars

(***************************************************************************)
(* The commands of one StepBattle request, as the loops of train(),        *)
(* evaluate_policy and run_behavior_cloning_warmstart collect them from    *)
(* the pending units.  A command is kept as its unit_id and the position   *)
(* of the pending entry it was decided for.                                *)
(***************************************************************************)
\* The positions of the pending entries, in the order the loops visit them.
PendingPositions(pending_units) == [i \in 1..Len(pending_units) |-> i]

CommandsAt(pending_units, positions) ==
    [k \in 1..Len(positions) |->
        [unit_id |-> _unit_id(pending_units[positions[k]]), pending |-> positions[k]]]

\* train(): dead pending units are skipped, and a command is appended only
\* if cmd.get("unit_id") is truthy.
TrainCommands(pending_units) ==
    CommandsAt(pending_units,
               SelectSeq(PendingPositions(pending_units),
                         LAMBDA i : /\ PendingAlive(pending_units[i])
                                    /\ Truthy(_unit_id(pending_units[i]))))

\* evaluate_policy: dead pending units are skipped, every command is appended.
EvalCommands(pending_units) ==
    CommandsAt(pending_units,
               SelectSeq(PendingPositions(pending_units),
                         LAMBDA i : PendingAlive(pending_units[i])))

\* _find_unit_by_state_id(state, unit_id), as a one-element sequence.
_find_unit_by_state_id(state, unit_id) ==
    LET hits == SelectSeq(Get(state, "units", <<>>),
                          LAMBDA u : Get(u, "id", "") = unit_id)
    IN  IF hits = <<>> THEN <<>> ELSE <<hits[1]>>

\* run_behavior_cloning_warmstart: a pending unit is skipped if the state
\* has no unit with its id or that unit is dead.
BcCommands(pending_units, snap) ==
    CommandsAt(pending_units,
               SelectSeq(PendingPositions(pending_units),
                         LAMBDA i :
                             LET found == _find_unit_by_state_id(
                                              StateOf(snap), _unit_id(pending_units[i]))
                             IN  found # <<>> /\ Get(found[1], "alive", TRUE)))

RolloutLoops == {"train", "evaluate_policy", "run_behavior_cloning_warmstart"}

\* The body of one iteration of a rollout loop up to stub.StepBattle.
SubmitCommands ==
    /\ call.pc = "called"
    /\ call.fn \in RolloutLoops
    /\ call' = [call EXCEPT
                   !.pc = "submitted",
                   !.commands =
                       IF call.fn = "train" THEN TrainCommands(call.pending_units)
                       ELSE IF call.fn = "evaluate_policy"
                       THEN EvalCommands(call.pending_units)
                       ELSE BcCommands(call.pending_units, call.snapshot)]
    /\ UNCHANGED <<stageVars, client, service, run>>

SubmitNext == SubmitCommands

\* The state units of the submit runs: u1 and u2, each alive, dead or not
\* in the state.
SubmitStateUnits ==
    {SelectSeq(<<[id |-> "u1", side |-> "player", alive |-> (a1 = "yes"), present |-> a1],
                 [id |-> "u2", side |-> "player", alive |-> (a2 = "yes"), present |-> a2]>>,
               LAMBDA u : u.present # "absent") :
        a1 \in {"yes", "no", "absent"}, a2 \in {"yes", "no", "absent"}}

InitSubmit ==
    /\ StageIdle
    /\ client = [pc |-> "idle"]
    /\ service = FreshService
    /\ run = [pc |-> "idle"]
    /\ \E fn \in RolloutLoops, pending_units \in PendingLists, units \in SubmitStateUnits :
           call = [pc |-> "called", fn |-> fn,
                   pending_units |-> pending_units,
                   snapshot |-> [state |-> [units |-> units]],
                   commands |-> <<>>]

SpecSubmit == InitSubmit /\ [][SubmitNext]_vars

\* C29: every command of a StepBattle request of train(), evaluate_policy
\* and run_behavior_cloning_warmstart has a non-empty unit_id and was
\* decided for a living pending unit, at most one per pending entry.
C29_CommandsWellFormed ==
    call.pc = "submitted" =>
        /\ \A k \in 1..Len(call.commands) :
               /\ call.commands[k].unit_id # ""
               /\ Get(call.pending_units[call.commands[k].pending], "alive", TRUE)
        /\ \A k, j \in 1..Len(call.commands) :
               call.commands[k].pending = call.commands[j].pending => k = j

\* The same for the loop of train() alone.
C29_TrainCommandsWellFormed ==
    (call.pc = "submitted" /\ call.fn = "train") => C29_CommandsWellFormed

(***************************************************************************)
(* The life of a stored log-probability in train().  run.dropped is the    *)
(* number of player log-probabilities the previous episode left in its     *)
(* partial chunk, as seen when the episode starts.                         *)
(***************************************************************************)
\* b is a, or a with one more element: the log-probabilities one side
\* records in one step of the model.
ExtendedByTick(a, b) ==
    /\ Len(a) <= Len(b) /\ Len(b) <= Len(a) + 1
    /\ SubSeq(b, 1, Len(a)) = a

NoLogProbs == [player |-> <<>>, enemy |-> <<>>]

\* C30: a log-probability recorded in an episode of train() enters the loss
\* of the first boundary after it in that episode and of no other update:
\* the lists start empty in every episode, grow only by what the step
\* records, are handed to the loss at the boundary and are empty after it,
\* so a chunk's loss holds at most the log-probabilities of its own steps.
C30_LogProbUsedOnce ==
    /\ [](/\ (run.pc = "train_loop" /\ run.step = 0) => run.chunk_log_probs = NoLogProbs
          /\ TrainStepped =>
                 /\ Len(run.chunk_log_probs.player) <= Len(run.since)
                 /\ Len(run.chunk_log_probs.enemy) <= Len(run.since)
          /\ ChunkJustFinalized => Len(run.chunk.log_probs) <= run.chunk.n)
    /\ [][TrainStepTaken =>
             IF run'.step % run'.chunk_steps = 0 \/ run'.terminal
             THEN /\ ExtendedByTick(run.chunk_log_probs.player, run'.chunk.log_probs)
                  /\ run'.chunk_log_probs = NoLogProbs
             ELSE /\ ExtendedByTick(run.chunk_log_probs.player,
                                    run'.chunk_log_probs.player)
                  /\ ExtendedByTick(run.chunk_log_probs.enemy,
                                    run'.chunk_log_probs.enemy)
                  /\ run'.chunk = run.chunk]_vars

\* An episode starts after one that the step ceiling cut off inside a chunk
\* with a stored log-probability: the new episode's lists are empty.
C30_Witness ==
    /\ run.pc = "train_loop"
    /\ run.step = 0
    /\ run.episode > 0
    /\ run.dropped > 0
    /\ run.chunk_log_probs = NoLogProbs

====
